---- MODULE Spec2Model ----
(***************************************************************************)
(* EduQuest backend: the scoring, points-ledger and badge-awarding engine  *)
(* of app/api/models.py and app/api/tasks.py.                              *)
(*                                                                         *)
(* Scores are FloatFields in the program.  The model counts them in whole  *)
(* fractions of a point: one point is Unit units, and Unit is a multiple   *)
(* of every possible number of correct options, so that                    *)
(* max_score / num_correct is exact.                                       *)
(***************************************************************************)
EXTENDS Integers, Sequences, FiniteSets, Bags, TLC

\* ------------------------------------------------------------------ bounds
\* UserAnswerAttempt rows of the attempt whose scoring is explored in SpecScore.
MaxAnswerAttempts == 2

\* The numbers of the answer options a question may have, and of the questions
\* of the quest whose scoring is explored in SpecScore.
AnswerNumbers == 1..2
QuestionNumbers == 1..2

\* Deliveries of a job beyond the first (at-least-once delivery).
MaxRedeliveries == 1

RECURSIVE Fact(_)
Fact(n) == IF n <= 1 THEN 1 ELSE n * Fact(n - 1)

\* Units per point; divisible by every possible num_correct.
Unit == Fact(Cardinality(AnswerNumbers))

\* Question.max_score values explored (points): the field's default 1, and 10.
MaxScoreValues == {1 * Unit, 10 * Unit}

\* The flat hint penalty of 5 points (remaining_penalty = 5; question_score - 5).
HintPenalty == 5 * Unit

\* A value not there yet (a call not made, a NULL column): the empty sequence;
\* a value v that is there: <<v>>.
None == <<>>
Some(v) == <<v>>

Students == {"s1", "s2"}
Quests == {"q1", "q2"}

Min(a, b) == IF a <= b THEN a ELSE b
Max(a, b) == IF a >= b THEN a ELSE b

RECURSIVE SeqSum(_)
SeqSum(s) == IF s = <<>> THEN 0 ELSE Head(s) + SeqSum(Tail(s))

\* All sequences over S of length at most n.
SeqsUpTo(S, n) == UNION {[1..k -> S] : k \in 0..n}

\* The orders in which an unordered query may return n rows.
RowOrders(n) == {p \in [1..n -> 1..n] : \A i, j \in 1..n : i # j => p[i] # p[j]}

\* The smallest element of a non-empty set of integers, and the largest.
SetMin(S) == CHOOSE x \in S : \A y \in S : x <= y
SetMax(S) == CHOOSE x \in S : \A y \in S : x >= y

\* Quest.type values: a competitive kind of quest and the practice-only kind.
QuestTypes == {"EduQuest MCQ", "Private"}

\* The Celery tasks of tasks.py, by name; a job is a task with its argument.
ScoreTask == "calculate_score_and_issue_points"
FirstAttemptTask == "award_first_attempt_badge"
PerfectionistTask == "award_perfectionist_badge"
SpeedsterTask == "award_speedster_badge"
ExpertTask == "award_expert_badge"
CompletionistTask == "check_course_completion_and_award_completionist_badge"

Job(task, arg) == [task |-> task, arg |-> arg]

AttemptIds == 1..2

VARIABLES
    quest_type,       \* Quest table: the quests there are, and Quest.type of each
    badge_table,      \* Badge table: the names there is a Badge row for
    questions,        \* Question and Answer tables: quest -> sequence of questions
    attempts,         \* UserQuestAttempt table: sequence of rows, id = position
    answer_attempts,  \* UserAnswerAttempt table: attempt id -> sequence of rows
    total_points,     \* EduquestUser.total_points of each student
    quest_status,     \* Quest.status of each quest
    expiration_date,  \* Quest.expiration_date of each quest: None, or <<time>>
    course_status,    \* Course.status of the course
    completed_on,     \* enrollment of each student: is completed_on set
    quest_badges,     \* UserQuestBadge: <<badge, attempt id>> -> number of rows
    course_badges,    \* UserCourseBadge: <<badge, student>> -> number of rows
    workers,          \* SpecConc: the badge job each worker is executing
    queue,            \* jobs dispatched (.delay) and not yet acknowledged
    redeliveries,     \* the jobs executed without acknowledgement, a bag
    last_scored,      \* history: the attempt the last step scored, else 0
    returned,         \* value returned by the last direct call of
                      \* calculate_total_score_achieved (SpecScore)
    question_scores,  \* question_score of each question in that call
    dispatches,       \* the jobs the save() hooks dispatched (.delay), a bag
    feedback,         \* StudentFeedback table: sequence of rows
    profiles,         \* StudentCognitiveProfile table: student -> None or the row
    user_id           \* EduquestUser.id of each student

vars == <<quest_type, badge_table, questions, attempts, answer_attempts, total_points, quest_status,
          expiration_date,
          course_status, completed_on, quest_badges, course_badges, workers,
          queue, redeliveries, last_scored, returned, question_scores,
          dispatches, feedback, profiles, user_id>>

\* The tables no operation of the engine writes.
catalogue == <<quest_type, badge_table, questions>>

QuestType(q) == quest_type[q]

\* What the Score Calculator called directly, and the badge engine, write.
scoreVars == <<returned, question_scores>>
badgeVars == <<quest_status, course_status, completed_on, quest_badges,
               course_badges, workers>>
\* The tables of the feedback and cognitive profile jobs, which the scoring,
\* ledger and badge operations neither read nor write.
feedbackVars == <<dispatches, feedback, profiles, user_id>>

\* Badge.name of the quest badges and of the course badge of tasks.py.
QuestBadgeNames == {"First Attempt", "Perfectionist", "Speedster", "Expert"}
CourseBadgeNames == {"Completionist"}
\* Badge.name of the rows the jobs look up with Badge.objects.get(name=...).
BadgeNames == QuestBadgeNames \cup CourseBadgeNames
Workers == {"w1", "w2"}
Idle == [task |-> "idle", arg |-> 0, pc |-> "idle"]

\* The tables as they are before anything is awarded or expired.
NoBadgeState ==
    /\ quest_status = [q \in DOMAIN quest_type |-> "Active"]
    /\ course_status = "Active"
    /\ completed_on = [s \in Students |-> FALSE]
    /\ quest_badges = [k \in QuestBadgeNames \X AttemptIds |-> 0]
    /\ course_badges = [k \in CourseBadgeNames \X Students |-> 0]
    /\ workers = [w \in Workers |-> Idle]

\* The tables as they are before any feedback or profile is stored.
NoFeedbackState ==
    /\ dispatches = EmptyBag
    /\ feedback = <<>>
    /\ profiles = [s \in Students |-> None]
    /\ user_id = [s \in Students |-> IF s = "s1" THEN 1 ELSE 2]

\* ------------------------------------------------- Score Calculator (models.py)

\* answers.filter(is_correct=True).count()
NumCorrect(q) == Cardinality({i \in DOMAIN q.answers : q.answers[i]})

\* Mutant: the weight divides by the number of options, not of correct options.
WeightPerOptionByOptions(q) ==
    q.max_score \div (IF Len(q.answers) = 0 THEN 1 ELSE Len(q.answers))

\* weight_per_option = question.max_score / (num_correct or 1)
WeightPerOption(q) ==
    q.max_score \div (IF NumCorrect(q) = 0 THEN 1 ELSE NumCorrect(q))

\* The first loop over user_answers: the score one row is given.
AwardedScore(q, ua) ==
    IF ua.is_selected /\ q.answers[ua.answer] THEN WeightPerOption(q) ELSE 0

\* Mutant: the whole score of the row is deducted, whatever penalty remains.
DeductionWholeScore(score, remaining_penalty) == score

\* deduction = min(ua.score_achieved, remaining_penalty)
Deduction(score, remaining_penalty) == Min(score, remaining_penalty)

\* The second loop over user_answers: the penalty is taken from the rows in the
\* order they are met.  ids: the rows still to visit; score: row id -> score.
RECURSIVE DeductPenalty(_, _, _)
DeductPenalty(ids, score, remaining_penalty) ==
    IF ids = <<>> THEN score
    ELSE LET i == Head(ids) IN
         IF score[i] > 0 /\ remaining_penalty > 0
         THEN LET deduction == Deduction(score[i], remaining_penalty) IN
              DeductPenalty(Tail(ids), [score EXCEPT ![i] = @ - deduction],
                            remaining_penalty - deduction)
         ELSE DeductPenalty(Tail(ids), score, remaining_penalty)

\* Mutant: the penalised subtotal is not clamped at 0.
PenalisedQuestionScoreNoClamp(question_score) == question_score - HintPenalty

\* question_score = max(0, question_score - 5)
PenalisedQuestionScore(question_score) == Max(0, question_score - HintPenalty)

\* self.answer_attempts.filter(question=question): the row ids, in the order the
\* database returns them (the query has no order_by and the model no ordering).
UserAnswers(rows, order, qi) ==
    SelectSeq(order, LAMBDA i : rows[i].question = qi)

\* user_answers.filter(hint_used=True).exists()
HintUsed(rows, ids) == \E k \in DOMAIN ids : rows[ids[k]].hint_used

\* The body of the loop for one question: the question_score and the scores of
\* its rows (score: row id -> score_achieved of the in-memory objects).
QuestionResult(q, rows, ids, score) ==
    LET first == [i \in DOMAIN score |->
                    IF \E k \in DOMAIN ids : ids[k] = i
                    THEN AwardedScore(q, rows[i]) ELSE score[i]]
        raw   == SeqSum([k \in DOMAIN ids |-> first[ids[k]]])
    IN  IF HintUsed(rows, ids)
        THEN [question_score |-> PenalisedQuestionScore(raw),
              score |-> DeductPenalty(ids, first, HintPenalty)]
        ELSE [question_score |-> raw, score |-> first]

\* The loop over the quest's questions.  Yields the sequence of question_score
\* values (0 for a question skipped for having no options) and the row scores.
RECURSIVE ScoreQuestions(_, _, _, _, _, _)
ScoreQuestions(qs, qi, rows, order, score, acc) ==
    IF qi > Len(qs) THEN [question_scores |-> acc, score |-> score]
    ELSE IF Len(qs[qi].answers) = 0
         THEN ScoreQuestions(qs, qi + 1, rows, order, score, Append(acc, 0))
         ELSE LET r == QuestionResult(qs[qi], rows, UserAnswers(rows, order, qi), score)
              IN  ScoreQuestions(qs, qi + 1, rows, order, r.score,
                                 Append(acc, r.question_score))

\* UserQuestAttempt.calculate_total_score_achieved: the total, and the rows after
\* the bulk_update of score_achieved.
CalculateTotalScoreAchieved(qs, rows, order) ==
    LET r == ScoreQuestions(qs, 1, rows, order,
                            [i \in DOMAIN rows |-> rows[i].score_achieved], <<>>)
    IN  [total_score |-> SeqSum(r.question_scores),
         question_scores |-> r.question_scores,
         rows |-> [i \in DOMAIN rows |-> [rows[i] EXCEPT !.score_achieved = r.score[i]]]]

\* ------------------------------------------------ attempts and their submission

\* The questions of both quests in the lifecycle specifications: one question
\* of 12 points with two correct options.
LifecycleQuestions == <<[max_score |-> 12 * Unit, answers |-> <<TRUE, TRUE>>]>>

\* What a student may hand in: no option, one option or both options selected.
Selections == {<<FALSE, FALSE>>, <<TRUE, FALSE>>, <<TRUE, TRUE>>}
\* Values of last_attempted_date at submission (first_attempted_date is 0).
SubmitDates == {1}

\* at-least-once delivery: a job that is executed is acknowledged and leaves
\* the queue, or stays in it and is delivered again.
CanDeliver(job, ack) ==
    job \in queue /\ (ack \/ BagCardinality(redeliveries) < MaxRedeliveries)
Delivered(job, ack) == IF ack THEN queue \ {job} ELSE queue
Counted(job, ack) == IF ack THEN redeliveries ELSE redeliveries (+) SetToBag({job})

\* A student starts a quest: UserQuestAttempt.save() of a new row dispatches
\* nothing (old_submitted_value is None).
CreateAttempt(s, q) ==
    /\ Len(attempts) < Cardinality(AttemptIds)
    /\ attempts' = Append(attempts,
                          [student |-> s, quest |-> q, submitted |-> FALSE,
                           first_attempted_date |-> Some(0),
                           last_attempted_date |-> None,
                           total_score_achieved |-> 0])
    /\ answer_attempts' = Append(answer_attempts, <<>>)
    /\ last_scored' = 0
    /\ UNCHANGED <<catalogue, expiration_date, feedbackVars, total_points, queue, redeliveries,
                   scoreVars, badgeVars>>

\* The student's answers are stored and the attempt is saved with submitted
\* going from False to True: UserQuestAttempt.save() dispatches the scoring and
\* the First Attempt jobs.  (It also dispatches generate_personalised_feedback
\* and update_cognitive_profile, which read and write none of these variables:
\* SpecSave follows them.)
Submit(a, sel, hint, date) ==
    /\ a \in DOMAIN attempts
    /\ ~attempts[a].submitted
    /\ attempts' = [attempts EXCEPT ![a].submitted = TRUE,
                                    ![a].last_attempted_date = Some(date)]
    /\ answer_attempts' =
         [answer_attempts EXCEPT ![a] =
            [k \in DOMAIN sel |->
                [question |-> 1, answer |-> k, is_selected |-> sel[k],
                 hint_used |-> hint, score_achieved |-> 0]]]
    /\ queue' = queue \cup {Job(ScoreTask, a), Job(FirstAttemptTask, a)}
    /\ last_scored' = 0
    /\ UNCHANGED <<catalogue, expiration_date, feedbackVars, total_points, redeliveries,
                   scoreVars, badgeVars>>

\* ------------------------------------------------ Points Ledger Updater (tasks.py)

\* The student's highest total_score_achieved over the other submitted attempts
\* at the same quest: aggregate(Max)['max_score'] or 0.
HighestScoreAchieved(atts, a) ==
    LET others == {b \in DOMAIN atts :
                      /\ b # a
                      /\ atts[b].student = atts[a].student
                      /\ atts[b].quest = atts[a].quest
                      /\ atts[b].submitted}
    IN  IF others = {} THEN 0
        ELSE SetMax({atts[b].total_score_achieved : b \in others})

\* Mutant: the ledger is updated for Private quests too.
IssuesPointsAnyQuest(total_score_achieved, highest_score_achieved, q) ==
    total_score_achieved > highest_score_achieved

\* if total_score_achieved > highest_score_achieved and quest.type != 'Private'
IssuesPoints(total_score_achieved, highest_score_achieved, q) ==
    total_score_achieved > highest_score_achieved /\ QuestType(q) # "Private"

\* Mutant: the whole score is credited, not the improvement.
PointsToAddWholeScore(total_score_achieved, highest_score_achieved) ==
    total_score_achieved

\* points_to_add = total_score_achieved - highest_score_achieved
PointsToAdd(total_score_achieved, highest_score_achieved) ==
    total_score_achieved - highest_score_achieved

\* calculate_score_and_issue_points(user_quest_attempt_id), one transaction:
\* the score is computed and saved, award_perfectionist_badge is dispatched,
\* and the student's total_points grow by the improvement on the prior best.
\* resaved: the jobs instance.save(update_fields=['total_score_achieved'])
\* dispatches on its way through UserQuestAttempt.save().
CalculateScoreAndIssuePoints(a, order, ack, resaved) ==
    /\ CanDeliver(Job(ScoreTask, a), ack)
    /\ order \in RowOrders(Len(answer_attempts[a]))
    /\ LET instance == attempts[a]
           r == CalculateTotalScoreAchieved(questions[instance.quest],
                                            answer_attempts[a], order)
           saved == [attempts EXCEPT ![a].total_score_achieved = r.total_score]
           highest_score_achieved == HighestScoreAchieved(saved, a)
       IN  /\ attempts' = saved
           /\ answer_attempts' = [answer_attempts EXCEPT ![a] = r.rows]
           /\ total_points' =
                IF IssuesPoints(r.total_score, highest_score_achieved, instance.quest)
                THEN [total_points EXCEPT ![instance.student] =
                        @ + PointsToAdd(r.total_score, highest_score_achieved)]
                ELSE total_points
    /\ queue' = Delivered(Job(ScoreTask, a), ack)
                    \cup {Job(PerfectionistTask, a)} \cup resaved
    /\ redeliveries' = Counted(Job(ScoreTask, a), ack)
    /\ last_scored' = a
    /\ UNCHANGED <<catalogue, expiration_date, scoreVars, badgeVars>>

\* ------------------------------------------------ Badge Rules Engine (tasks.py)

\* Quest.total_max_score(): Sum('max_score') over the quest's questions, or 0.
TotalMaxScore(q) == SeqSum([k \in DOMAIN questions[q] |-> questions[q][k].max_score])

\* UserQuestAttempt.time_taken, in milliseconds.
TimeTaken(att) ==
    IF att.first_attempted_date = None \/ att.last_attempted_date = None THEN 0
    ELSE LET time_difference == att.last_attempted_date[1] - att.first_attempted_date[1]
         IN  IF time_difference < 0 THEN 0 ELSE time_difference

\* objects.create(badge, subject): one more row.
CreateRow(table, key) == [table EXCEPT ![key] = @ + 1]

\* Mutant: a row is created whether or not one is there.
GetOrCreateAlways(table, key) == CreateRow(table, key)

\* objects.get_or_create(badge, subject) executed without interruption: the row
\* is created when get() finds none; with one row nothing changes, and with
\* several get() raises MultipleObjectsReturned and nothing changes.
GetOrCreate(table, key) == IF table[key] = 0 THEN CreateRow(table, key) ELSE table

\* UserQuestBadge.objects.filter(user_quest_attempt__student=user,
\*                               badge__name="First Attempt").exists()
HasFirstAttemptBadge(s) ==
    \E a \in DOMAIN attempts :
        attempts[a].student = s /\ quest_badges[<<"First Attempt", a>>] > 0

\* Mutant: Private quests are not skipped.
FirstAttemptEligibleAnyQuest(a) ==
    attempts[a].submitted /\ ~HasFirstAttemptBadge(attempts[a].student)

\* award_first_attempt_badge up to get_or_create: the quest is not Private, the
\* attempt is submitted and the student holds no First Attempt badge.
FirstAttemptEligible(a) ==
    /\ QuestType(attempts[a].quest) # "Private"
    /\ attempts[a].submitted
    /\ ~HasFirstAttemptBadge(attempts[a].student)

\* Mutant: a quest without a maximum score is not skipped.
PerfectionistEligibleZeroMax(a) ==
    /\ QuestType(attempts[a].quest) # "Private"
    /\ attempts[a].submitted
    /\ attempts[a].total_score_achieved = TotalMaxScore(attempts[a].quest)

\* award_perfectionist_badge up to get_or_create.
PerfectionistEligible(a) ==
    /\ QuestType(attempts[a].quest) # "Private"
    /\ TotalMaxScore(attempts[a].quest) # 0
    /\ attempts[a].submitted
    /\ attempts[a].total_score_achieved = TotalMaxScore(attempts[a].quest)

\* award_speedster_badge: the attempts with a score above 0, without those
\* whose two dates are both NULL.
SpeedsterAttempts(q) ==
    {a \in DOMAIN attempts :
        /\ attempts[a].quest = q
        /\ attempts[a].total_score_achieved > 0
        /\ ~(attempts[a].first_attempted_date = None
             /\ attempts[a].last_attempted_date = None)}

\* filtered_attempts: those with time_taken > 0.
FilteredAttempts(q) == {a \in SpeedsterAttempts(q) : TimeTaken(attempts[a]) > 0}

\* min(filtered_attempts, key=time_taken): the first of the fastest attempts in
\* the order the query returned them, so any of the fastest attempts.
FastestAttempts(q) ==
    {a \in FilteredAttempts(q) :
        \A b \in FilteredAttempts(q) : TimeTaken(attempts[a]) <= TimeTaken(attempts[b])}

\* The three highest distinct scores among SpeedsterAttempts.
TopThreeScores(q) ==
    LET scores == {attempts[a].total_score_achieved : a \in SpeedsterAttempts(q)}
    IN  {x \in scores : Cardinality({y \in scores : y > x}) < 3}

\* award_speedster_badge up to get_or_create, with fastest the attempt min() gave.
SpeedsterEligible(q, fastest) ==
    /\ QuestType(q) # "Private"
    /\ TotalMaxScore(q) # 0
    /\ fastest \in FastestAttempts(q)
    /\ attempts[fastest].total_score_achieved \in TopThreeScores(q)

\* Mutant: the quest's status is not looked at.
ExpertAttemptsAnyStatus(q) ==
    LET user_quest_attempts == {a \in DOMAIN attempts : attempts[a].quest = q}
        highest_score ==
            IF user_quest_attempts = {} THEN 0
            ELSE SetMax({attempts[a].total_score_achieved : a \in user_quest_attempts})
    IN  IF \/ QuestType(q) = "Private"
           \/ TotalMaxScore(q) = 0
           \/ user_quest_attempts = {}
           \/ highest_score <= 0
        THEN {}
        ELSE {a \in user_quest_attempts : attempts[a].total_score_achieved = highest_score}

\* award_expert_badge: the attempts that get the badge.
ExpertAttempts(q) ==
    LET user_quest_attempts == {a \in DOMAIN attempts : attempts[a].quest = q}
        highest_score ==
            IF user_quest_attempts = {} THEN 0
            ELSE SetMax({attempts[a].total_score_achieved : a \in user_quest_attempts})
    IN  IF \/ QuestType(q) = "Private"
           \/ TotalMaxScore(q) = 0
           \/ quest_status[q] # "Expired"
           \/ user_quest_attempts = {}
           \/ highest_score <= 0
        THEN {}
        ELSE {a \in user_quest_attempts : attempts[a].total_score_achieved = highest_score}

\* get_or_create for each attempt of a set, one after the other.
RECURSIVE GetOrCreateAll(_, _, _)
GetOrCreateAll(table, badge, subjects) ==
    IF subjects = {} THEN table
    ELSE LET x == CHOOSE y \in subjects : TRUE
         IN  GetOrCreateAll(GetOrCreate(table, <<badge, x>>), badge, subjects \ {x})

\* check_course_completion_and_award_completionist_badge: the enrollments (one
\* per student, all in the one course group) whose student has a submitted
\* attempt for exactly the non-private quests of the group.
QuestsInGroup == {q \in DOMAIN quest_type : QuestType(q) # "Private"}

UserAttemptsInGroup(s) ==
    {attempts[a].quest : a \in {b \in DOMAIN attempts :
        /\ attempts[b].student = s
        /\ attempts[b].quest \in QuestsInGroup
        /\ attempts[b].submitted}}

\* Mutant: one submitted attempt at a quest of the group is enough.
CompletedEnrollmentsPartial ==
    {s \in Students : QuestsInGroup # {} /\ UserAttemptsInGroup(s) # {}}

\* Mutant: a group without quests to complete is not skipped.
CompletedEnrollmentsEmptyGroup ==
    {s \in Students : QuestsInGroup = UserAttemptsInGroup(s)}

CompletedEnrollments ==
    {s \in Students : QuestsInGroup # {} /\ QuestsInGroup = UserAttemptsInGroup(s)}

\* What every execution of a job does to the queue.
JobDone(job, ack, dispatched) ==
    /\ CanDeliver(job, ack)
    /\ queue' = Delivered(job, ack) \cup dispatched
    /\ redeliveries' = Counted(job, ack)
    /\ last_scored' = 0

\* award_first_attempt_badge(user_quest_attempt_id), executed without interruption.
AwardFirstAttemptBadge(a, ack) ==
    /\ JobDone(Job(FirstAttemptTask, a), ack, {})
    /\ quest_badges' = IF FirstAttemptEligible(a)
                       THEN GetOrCreate(quest_badges, <<"First Attempt", a>>)
                       ELSE quest_badges
    /\ UNCHANGED <<catalogue, expiration_date, feedbackVars, attempts, answer_attempts, total_points, scoreVars,
                   quest_status, course_status, completed_on, course_badges, workers>>

\* award_perfectionist_badge(user_quest_attempt_id), executed without interruption.
AwardPerfectionistBadge(a, ack) ==
    /\ JobDone(Job(PerfectionistTask, a), ack, {})
    /\ quest_badges' = IF PerfectionistEligible(a)
                       THEN GetOrCreate(quest_badges, <<"Perfectionist", a>>)
                       ELSE quest_badges
    /\ UNCHANGED <<catalogue, expiration_date, feedbackVars, attempts, answer_attempts, total_points, scoreVars,
                   quest_status, course_status, completed_on, course_badges, workers>>

\* award_speedster_badge(quest_id).
AwardSpeedsterBadge(q, ack) ==
    /\ JobDone(Job(SpeedsterTask, q), ack, {})
    /\ \/ /\ QuestType(q) # "Private" /\ TotalMaxScore(q) # 0
          /\ \E fastest \in FastestAttempts(q) :
                quest_badges' = IF SpeedsterEligible(q, fastest)
                                THEN GetOrCreate(quest_badges, <<"Speedster", fastest>>)
                                ELSE quest_badges
       \/ /\ QuestType(q) = "Private" \/ TotalMaxScore(q) = 0 \/ FastestAttempts(q) = {}
          /\ quest_badges' = quest_badges
    /\ UNCHANGED <<catalogue, expiration_date, feedbackVars, attempts, answer_attempts, total_points, scoreVars,
                   quest_status, course_status, completed_on, course_badges, workers>>

\* award_expert_badge(quest_id).
AwardExpertBadge(q, ack) ==
    /\ JobDone(Job(ExpertTask, q), ack, {})
    /\ quest_badges' = GetOrCreateAll(quest_badges, "Expert", ExpertAttempts(q))
    /\ UNCHANGED <<catalogue, expiration_date, feedbackVars, attempts, answer_attempts, total_points, scoreVars,
                   quest_status, course_status, completed_on, course_badges, workers>>

\* check_course_completion_and_award_completionist_badge(course_id).
CheckCourseCompletion(ack) ==
    /\ JobDone(Job(CompletionistTask, "c1"), ack, {})
    /\ completed_on' = [s \in Students |-> completed_on[s] \/ s \in CompletedEnrollments]
    /\ course_badges' = GetOrCreateAll(course_badges, "Completionist", CompletedEnrollments)
    /\ UNCHANGED <<catalogue, expiration_date, feedbackVars, attempts, answer_attempts, total_points, scoreVars,
                   quest_status, course_status, quest_badges, workers>>

\* award_tutorial_attendance_badges_for_course(course_id).  The quests that
\* count are the tutorial quests of the course group (type "Kahoot!" with a
\* tutorial_date in the repository's test); an enrollment whose student has a
\* submitted attempt for at least 70% of them gets Full Attendance, one at or
\* above 50% gets Half Attendance, the two thresholds being independent.
TutorialAttendanceTask == "award_tutorial_attendance_badges_for_course"

TutorialQuests == {q \in DOMAIN quest_type : quest_type[q] = "Kahoot!"}

TutorialsAttended(s) ==
    {q \in TutorialQuests :
        \E a \in DOMAIN attempts :
            attempts[a].student = s /\ attempts[a].quest = q /\ attempts[a].submitted}

\* Mutant: the threshold must be exceeded, not reached.
AttendsAtLeastStrict(s, percent) ==
    /\ TutorialQuests # {}
    /\ Cardinality(TutorialsAttended(s)) * 100 > percent * Cardinality(TutorialQuests)

AttendsAtLeast(s, percent) ==
    /\ TutorialQuests # {}
    /\ Cardinality(TutorialsAttended(s)) * 100 >= percent * Cardinality(TutorialQuests)

AwardTutorialAttendanceBadges(ack) ==
    /\ JobDone(Job(TutorialAttendanceTask, "c1"), ack, {})
    /\ course_badges' =
         GetOrCreateAll(
            GetOrCreateAll(course_badges, "Full Attendance",
                           {s \in Students : AttendsAtLeast(s, 70)}),
            "Half Attendance", {s \in Students : AttendsAtLeast(s, 50)})
    /\ UNCHANGED <<catalogue, expiration_date, feedbackVars, attempts, answer_attempts, total_points, scoreVars,
                   quest_status, course_status, completed_on, quest_badges, workers>>

\* ------------------------------------------------ badge jobs on concurrent workers
\* The First Attempt and the Perfectionist job as the workers execute them:
\* statement by statement, each statement a step other workers' steps may
\* come between.  get_or_create is a get() and, when that finds no row, a
\* create(); neither UserQuestBadge nor UserCourseBadge declares a uniqueness
\* constraint, so create() never fails.

BadgeOf(task) == IF task = FirstAttemptTask THEN "First Attempt" ELSE "Perfectionist"

\* The conditions a job checks before its get_or_create.
Eligible(task, a) ==
    IF task = FirstAttemptTask THEN FirstAttemptEligible(a) ELSE PerfectionistEligible(a)

\* A worker receives a job.
WorkerTakes(w, job, ack) ==
    /\ workers[w] = Idle
    /\ job.task \in {FirstAttemptTask, PerfectionistTask}
    /\ CanDeliver(job, ack)
    /\ workers' = [workers EXCEPT ![w] = [task |-> job.task, arg |-> job.arg, pc |-> "check"]]
    /\ queue' = Delivered(job, ack)
    /\ redeliveries' = Counted(job, ack)
    /\ last_scored' = 0
    /\ UNCHANGED <<catalogue, expiration_date, feedbackVars, attempts, answer_attempts, total_points, scoreVars,
                   quest_status, course_status, completed_on, quest_badges, course_badges>>

\* The job loads the attempt and checks its conditions; it returns when one fails.
WorkerChecks(w) ==
    /\ workers[w].pc = "check"
    /\ workers' = [workers EXCEPT ![w] =
                      IF Eligible(workers[w].task, workers[w].arg)
                      THEN [@ EXCEPT !.pc = "get"] ELSE Idle]
    /\ last_scored' = 0
    /\ UNCHANGED <<catalogue, expiration_date, feedbackVars, attempts, answer_attempts, total_points, scoreVars,
                   quest_status, course_status, completed_on, quest_badges, course_badges,
                   queue, redeliveries>>

\* get_or_create's get(): with no row the job goes on to create one; with one
\* row it returns; with several, MultipleObjectsReturned ends the job.
WorkerGets(w) ==
    /\ workers[w].pc = "get"
    /\ workers' = [workers EXCEPT ![w] =
                      IF quest_badges[<<BadgeOf(workers[w].task), workers[w].arg>>] = 0
                      THEN [@ EXCEPT !.pc = "create"] ELSE Idle]
    /\ last_scored' = 0
    /\ UNCHANGED <<catalogue, expiration_date, feedbackVars, attempts, answer_attempts, total_points, scoreVars,
                   quest_status, course_status, completed_on, quest_badges, course_badges,
                   queue, redeliveries>>

\* get_or_create's create().
WorkerCreates(w) ==
    /\ workers[w].pc = "create"
    /\ quest_badges' = CreateRow(quest_badges, <<BadgeOf(workers[w].task), workers[w].arg>>)
    /\ workers' = [workers EXCEPT ![w] = Idle]
    /\ last_scored' = 0
    /\ UNCHANGED <<catalogue, expiration_date, feedbackVars, attempts, answer_attempts, total_points, scoreVars,
                   quest_status, course_status, completed_on, course_badges,
                   queue, redeliveries>>

\* ------------------------------------------------ expiry (models.py save hooks)

\* The times of the model's clock (timezone.now()), and the time at which the
\* quests and the course of the specifications without a clock expire.
Times == 0..2
ExpiryTimes == {1}

\* Quest.save() with the status going from Active to Expired stores
\* timezone.now() as the expiration date and dispatches the Expert and the
\* Speedster job of the quest.
ExpireQuest(q) ==
    /\ quest_status[q] = "Active"
    /\ quest_status' = [quest_status EXCEPT ![q] = "Expired"]
    /\ \E now \in ExpiryTimes :
           expiration_date' = [expiration_date EXCEPT ![q] = Some(now)]
    /\ queue' = queue \cup {Job(ExpertTask, q), Job(SpeedsterTask, q)}
    /\ last_scored' = 0
    /\ UNCHANGED <<catalogue, feedbackVars, attempts, answer_attempts, total_points, scoreVars,
                   course_status, completed_on, quest_badges, course_badges, workers,
                   redeliveries>>

\* Course.save() with the status going from Active to Expired dispatches the
\* Completionist job (and award_tutorial_attendance_badges_for_course, which is
\* not among the jobs of these specifications) and saves every quest of the
\* course's groups as Expired, which dispatches as ExpireQuest does for the
\* quests that were Active.
\* Mutant: the quests are set to Expired with a queryset update(), which does
\* not go through Quest.save().
ExpireCourseByUpdate ==
    /\ course_status = "Active"
    /\ course_status' = "Expired"
    /\ quest_status' = [q \in DOMAIN quest_type |-> "Expired"]
    /\ queue' = queue \cup {Job(CompletionistTask, "c1")}
    /\ last_scored' = 0
    /\ UNCHANGED <<catalogue, expiration_date, feedbackVars, attempts, answer_attempts, total_points, scoreVars,
                   completed_on, quest_badges, course_badges, workers,
                   redeliveries>>

ExpireCourse ==
    /\ course_status = "Active"
    /\ course_status' = "Expired"
    /\ quest_status' = [q \in DOMAIN quest_type |-> "Expired"]
    /\ queue' = queue \cup {Job(CompletionistTask, "c1")}
                      \cup {Job(t, q) : t \in {ExpertTask, SpeedsterTask},
                                        q \in {x \in DOMAIN quest_type : quest_status[x] = "Active"}}
    /\ \E now \in ExpiryTimes :
           expiration_date' = [q \in DOMAIN quest_type |->
                                  IF quest_status[q] = "Active" THEN Some(now)
                                  ELSE expiration_date[q]]
    /\ last_scored' = 0
    /\ UNCHANGED <<catalogue, feedbackVars, attempts, answer_attempts, total_points, scoreVars,
                   completed_on, quest_badges, course_badges, workers,
                   redeliveries>>

\* ------------------------------------------------ specification SpecScore
\* One submitted attempt (id 1) at quest q1; the quest's questions and the
\* attempt's rows are drawn from the bounded sets, and the method is called
\* any number of times on the unchanged input.

QuestionConfigs ==
    {[max_score |-> m, answers |-> a] :
        m \in MaxScoreValues, a \in SeqsUpTo(BOOLEAN, Cardinality(AnswerNumbers))}

\* Rows whose answer is one of the options of their question.
RowsFor(qs) ==
    {[question |-> qi, answer |-> ai, is_selected |-> sel, hint_used |-> h,
      score_achieved |-> 0] :
        qi \in {k \in DOMAIN qs : Len(qs[k].answers) > 0},
        ai \in AnswerNumbers, sel \in BOOLEAN, h \in BOOLEAN}

\* The rows of one attempt are drawn up to the order of their primary keys,
\* which the method never reads: the order it meets them in is RowOrders.
RowKey(ua) ==
    ((ua.question * (Cardinality(AnswerNumbers) + 1) + ua.answer) * 2
        + (IF ua.is_selected THEN 1 ELSE 0)) * 2 + (IF ua.hint_used THEN 1 ELSE 0)

WellFormedRows(qs, rows) ==
    /\ \A i \in DOMAIN rows : rows[i].answer <= Len(qs[rows[i].question].answers)
    /\ \A i, j \in DOMAIN rows : i < j => RowKey(rows[i]) <= RowKey(rows[j])

InitScore ==
    /\ \E qs \in [QuestionNumbers -> QuestionConfigs] :
         /\ quest_type = [q \in {"q1"} |-> "EduQuest MCQ"]
         /\ questions = [q \in {"q1"} |-> qs]
         /\ \E rows \in SeqsUpTo(RowsFor(qs), MaxAnswerAttempts) :
              /\ WellFormedRows(qs, rows)
              /\ answer_attempts = <<rows>>
    /\ attempts = <<[student |-> "s1", quest |-> "q1", submitted |-> TRUE,
                     first_attempted_date |-> None, last_attempted_date |-> None,
                     total_score_achieved |-> 0]>>
    /\ total_points = [s \in Students |-> 0]
    /\ NoBadgeState
    /\ queue = {}
    /\ redeliveries = EmptyBag
    /\ last_scored = 0
    /\ returned = None
    /\ question_scores = <<>>
    /\ expiration_date = [q \in DOMAIN quest_type |-> None]
    /\ badge_table = BadgeNames
    /\ NoFeedbackState

CallCalculateTotalScore ==
    \E order \in RowOrders(Len(answer_attempts[1])) :
        LET r == CalculateTotalScoreAchieved(questions["q1"], answer_attempts[1], order)
        IN  /\ answer_attempts' = [answer_attempts EXCEPT ![1] = r.rows]
            /\ returned' = Some(r.total_score)
            /\ question_scores' = r.question_scores
            /\ UNCHANGED <<catalogue, expiration_date, feedbackVars, attempts, total_points, queue, redeliveries,
                           last_scored, badgeVars>>

NextScore == CallCalculateTotalScore

SpecScore == InitScore /\ [][NextScore]_vars

\* ------------------------------------------------ specification SpecLedger
\* Students start and submit attempts; of the dispatched jobs only the scoring
\* jobs are executed, one at a time.
InitLedger ==
    /\ quest_type = [q \in Quests |-> IF q = "q2" THEN "Private" ELSE "EduQuest MCQ"]
    /\ questions = [q \in Quests |-> LifecycleQuestions]
    /\ attempts = <<>>
    /\ answer_attempts = <<>>
    /\ total_points = [s \in Students |-> 0]
    /\ NoBadgeState
    /\ queue = {}
    /\ redeliveries = EmptyBag
    /\ last_scored = 0
    /\ returned = None
    /\ question_scores = <<>>
    /\ expiration_date = [q \in DOMAIN quest_type |-> None]
    /\ badge_table = BadgeNames
    /\ NoFeedbackState

\* The students are interchangeable: the first attempt is taken to be s1's.
StudentStartsQuest ==
    \E s \in Students, q \in DOMAIN quest_type :
        /\ attempts = <<>> => s = "s1"
        /\ CreateAttempt(s, q)

StudentSubmits ==
    \E a \in AttemptIds, sel \in Selections, hint \in BOOLEAN, date \in SubmitDates :
        Submit(a, sel, hint, date)

RunScoringJob ==
    \E a \in DOMAIN attempts, ack \in BOOLEAN :
        \E order \in RowOrders(Len(answer_attempts[a])) :
            /\ CalculateScoreAndIssuePoints(a, order, ack, {})
            /\ UNCHANGED feedbackVars

NextLedger == StudentStartsQuest \/ StudentSubmits \/ RunScoringJob

SpecLedger == InitLedger /\ [][NextLedger]_vars

\* ------------------------------------------------ specification Spec
\* The whole engine around one quest, which is of either type, with every job
\* executed without interruption, one job at a time, in any order and with
\* redelivery.
Init ==
    /\ \E t \in QuestTypes : quest_type = [q \in {"q1"} |-> t]
    /\ questions = [q \in {"q1"} |-> LifecycleQuestions]
    /\ attempts = <<>>
    /\ answer_attempts = <<>>
    /\ total_points = [s \in Students |-> 0]
    /\ NoBadgeState
    /\ queue = {}
    /\ redeliveries = EmptyBag
    /\ last_scored = 0
    /\ returned = None
    /\ question_scores = <<>>
    /\ expiration_date = [q \in DOMAIN quest_type |-> None]
    /\ badge_table = BadgeNames
    /\ NoFeedbackState

\* In Spec the students hand in without using the hint.
StudentSubmitsNoHint ==
    \E a \in AttemptIds, sel \in Selections, date \in SubmitDates :
        Submit(a, sel, FALSE, date)

RunFirstAttemptJob == \E a \in DOMAIN attempts, ack \in BOOLEAN : AwardFirstAttemptBadge(a, ack)
RunPerfectionistJob == \E a \in DOMAIN attempts, ack \in BOOLEAN : AwardPerfectionistBadge(a, ack)
RunSpeedsterJob == \E q \in DOMAIN quest_type, ack \in BOOLEAN : AwardSpeedsterBadge(q, ack)
RunExpertJob == \E q \in DOMAIN quest_type, ack \in BOOLEAN : AwardExpertBadge(q, ack)
RunCompletionistJob == \E ack \in BOOLEAN : CheckCourseCompletion(ack)
QuestExpires == \E q \in DOMAIN quest_type : ExpireQuest(q)
CourseExpires == ExpireCourse

Next ==
    \/ StudentStartsQuest
    \/ StudentSubmitsNoHint
    \/ RunScoringJob
    \/ RunFirstAttemptJob
    \/ RunPerfectionistJob
    \/ RunSpeedsterJob
    \/ RunExpertJob
    \/ RunCompletionistJob
    \/ QuestExpires
    \/ CourseExpires

Spec == Init /\ [][Next]_vars

\* ------------------------------------------------ specification SpecConc
\* Submissions and scoring as in Spec; the First Attempt and Perfectionist jobs
\* are executed by two workers at the same time.
WorkerStarts ==
    \E w \in Workers, a \in DOMAIN attempts, ack \in BOOLEAN :
        \E t \in {FirstAttemptTask, PerfectionistTask} : WorkerTakes(w, Job(t, a), ack)
WorkerChecksConditions == \E w \in Workers : WorkerChecks(w)
WorkerLooksUpBadge == \E w \in Workers : WorkerGets(w)
WorkerCreatesBadge == \E w \in Workers : WorkerCreates(w)

NextConc ==
    \/ StudentStartsQuest
    \/ StudentSubmitsNoHint
    \/ RunScoringJob
    \/ WorkerStarts
    \/ WorkerChecksConditions
    \/ WorkerLooksUpBadge
    \/ WorkerCreatesBadge

SpecConc == Init /\ [][NextConc]_vars

\* ------------------------------------------------ specifications SpecRules, SpecSpeedster
\* The quest badge jobs executed on any table of attempts: one quest, up to
\* four attempts of any score, submission state and timestamps, and one job
\* called on it (and, delivered again, called again).
RuleAttemptIds == 1..4

\* One question worth four points with four correct answers: an attempt scores
\* one point for each answer selected.
RuleQuestions == <<[max_score |-> 4 * Unit, answers |-> <<TRUE, TRUE, TRUE, TRUE>>]>>

\* The quest: public or Private, Active or Expired, with the question or with none.
QuestConditions ==
    {[type |-> t, status |-> st, questions |-> qs] :
        t \in QuestTypes, st \in {"Active", "Expired"}, qs \in {<<>>, RuleQuestions}}

\* first_attempted_date and last_attempted_date: both NULL (imported), one
\* NULL, 1 ms and 2 ms apart, and the last before the first.
Timestamps ==
    {<<None, None>>, <<Some(0), None>>, <<Some(0), Some(1)>>, <<Some(0), Some(2)>>,
     <<Some(2), Some(1)>>}

\* The rows an attempt may be.  An attempt that is not submitted is in
\* progress (started, no score); no score is above the quest's maximum.
AttemptRows(qs, stamps) ==
    {r \in [submitted : BOOLEAN, total_score_achieved : {sc * Unit : sc \in 0..4},
            first_attempted_date : {None, Some(0), Some(2)},
            last_attempted_date : {None, Some(1), Some(2)}] :
        /\ r.total_score_achieved <= SeqSum([k \in DOMAIN qs |-> qs[k].max_score])
        /\ IF r.submitted
           THEN <<r.first_attempted_date, r.last_attempted_date>> \in stamps
           ELSE /\ r.total_score_achieved = 0
                /\ r.first_attempted_date = Some(0) /\ r.last_attempted_date = None}

\* The jobs read no primary key: tables are drawn up to the order of their rows.
AttemptKey(r) ==
    ((IF r.submitted THEN 1 ELSE 0) * 16 + r.total_score_achieved) * 16
      + (IF r.first_attempted_date = None THEN 0 ELSE 1 + r.first_attempted_date[1]) * 4
      + (IF r.last_attempted_date = None THEN 0 ELSE 1 + r.last_attempted_date[1])

\* The calls of the given tasks on a table of n attempts.
RuleJobs(tasks, n) ==
    {Job(t, a) : t \in tasks \cap {PerfectionistTask}, a \in 1..n}
        \cup {Job(t, "q1") : t \in tasks \cap {SpeedsterTask, ExpertTask}}

InitTable(conditions, stamps, tasks) ==
    /\ \E c \in conditions :
         /\ quest_type = [q \in {"q1"} |-> c.type]
         /\ questions = [q \in {"q1"} |-> c.questions]
         /\ quest_status = [q \in {"q1"} |-> c.status]
         /\ \E rows \in SeqsUpTo(AttemptRows(c.questions, stamps),
                                  Cardinality(RuleAttemptIds)) :
              /\ \A i, j \in DOMAIN rows : i < j => AttemptKey(rows[i]) <= AttemptKey(rows[j])
              /\ attempts =
                   [i \in DOMAIN rows |->
                       [student |-> IF i % 2 = 1 THEN "s1" ELSE "s2", quest |-> "q1",
                        submitted |-> rows[i].submitted,
                        first_attempted_date |-> rows[i].first_attempted_date,
                        last_attempted_date |-> rows[i].last_attempted_date,
                        total_score_achieved |-> rows[i].total_score_achieved]]
              /\ answer_attempts = [i \in DOMAIN rows |-> <<>>]
              /\ \E job \in RuleJobs(tasks, Len(rows)) : queue = {job}
    /\ total_points = [s \in Students |-> 0]
    /\ course_status = "Active"
    /\ completed_on = [s \in Students |-> FALSE]
    /\ quest_badges = [k \in QuestBadgeNames \X RuleAttemptIds |-> 0]
    /\ course_badges = [k \in CourseBadgeNames \X Students |-> 0]
    /\ workers = [w \in Workers |-> Idle]
    /\ redeliveries = EmptyBag
    /\ last_scored = 0
    /\ returned = None
    /\ question_scores = <<>>
    /\ expiration_date = [q \in DOMAIN quest_type |-> None]
    /\ badge_table = BadgeNames
    /\ NoFeedbackState

\* SpecRules: the Perfectionist and the Expert job; every attempt took 1 ms.
InitRules ==
    InitTable(QuestConditions, {<<Some(0), Some(1)>>}, {PerfectionistTask, ExpertTask})

NextRules == RunPerfectionistJob \/ RunExpertJob

SpecRules == InitRules /\ [][NextRules]_vars

\* SpecSpeedster: the Speedster job, dispatched when the quest expired.
InitSpeedster ==
    InitTable({c \in QuestConditions : c.status = "Expired"}, Timestamps, {SpeedsterTask})

NextSpeedster == RunSpeedsterJob

SpecSpeedster == InitSpeedster /\ [][NextSpeedster]_vars

\* ------------------------------------------------ specification SpecCourse
\* The course jobs executed on any course group of three quests and two
\* enrolled students: every quest is of any type, every student has no
\* attempt, an attempt in progress or a submitted attempt at every quest, and
\* one of the two jobs of an expired course is called.
CourseQuests == {"q1", "q2", "q3"}
CourseQuestTypes == {"EduQuest MCQ", "Kahoot!", "Private"}
AttemptStates == {"none", "started", "submitted"}
CoursePairs ==
    <<<<"s1", "q1">>, <<"s1", "q2">>, <<"s1", "q3">>,
      <<"s2", "q1">>, <<"s2", "q2">>, <<"s2", "q3">>>>

InitCourse ==
    /\ quest_type \in [CourseQuests -> CourseQuestTypes]
    /\ questions = [q \in CourseQuests |-> LifecycleQuestions]
    /\ quest_status = [q \in CourseQuests |-> "Expired"]
    /\ course_status = "Expired"
    /\ \E st \in [Students \X CourseQuests -> AttemptStates] :
         LET rows == SelectSeq(CoursePairs, LAMBDA p : st[p] # "none")
         IN  /\ attempts =
                  [i \in DOMAIN rows |->
                      [student |-> rows[i][1], quest |-> rows[i][2],
                       submitted |-> (st[rows[i]] = "submitted"),
                       first_attempted_date |-> Some(0),
                       last_attempted_date |->
                           IF st[rows[i]] = "submitted" THEN Some(1) ELSE None,
                       total_score_achieved |-> 0]]
             /\ answer_attempts = [i \in DOMAIN rows |-> <<>>]
    /\ queue \in {{Job(CompletionistTask, "c1")}, {Job(TutorialAttendanceTask, "c1")}}
    /\ total_points = [s \in Students |-> 0]
    /\ completed_on = [s \in Students |-> FALSE]
    /\ quest_badges = [k \in QuestBadgeNames \X (1..Len(CoursePairs)) |-> 0]
    /\ course_badges =
         [k \in {"Completionist", "Full Attendance", "Half Attendance"} \X Students |-> 0]
    /\ workers = [w \in Workers |-> Idle]
    /\ redeliveries = EmptyBag
    /\ last_scored = 0
    /\ returned = None
    /\ question_scores = <<>>
    /\ expiration_date = [q \in DOMAIN quest_type |-> None]
    /\ badge_table = BadgeNames
    /\ NoFeedbackState

RunTutorialAttendanceJob == \E ack \in BOOLEAN : AwardTutorialAttendanceBadges(ack)

NextCourse == RunCompletionistJob \/ RunTutorialAttendanceJob

SpecCourse == InitCourse /\ [][NextCourse]_vars

\* ------------------------------------------------ Trigger Orchestrator (models.py)
FeedbackTask == "generate_personalised_feedback"
ProfileTask == "update_cognitive_profile"

\* No job is dispatched for the same attempt more often than this.
MaxDispatches == 3
\* No attempt has more answer rows than this, and in SpecProfile the attempt
\* handed in later has no more than MaxLaterRows.
MaxObservationRows == 5
MaxLaterRows == 2

\* hasattr(self, 'personalised_feedback'): the attempt has a StudentFeedback row.
HasFeedback(a) == \E i \in DOMAIN feedback : feedback[i].user_quest_attempt = a

\* Mutant: the hook does not compare with the stored value and dispatches the
\* four jobs on every save of a submitted attempt.
SaveDispatchesOnEverySave(a, old_submitted_value, submitted) ==
    IF submitted
    THEN {Job(ScoreTask, a), Job(FirstAttemptTask, a),
          Job(FeedbackTask, a), Job(ProfileTask, a)}
    ELSE {}

\* UserQuestAttempt.save(): the jobs dispatched once the row is written.
\* old_submitted_value is None for a new row; each job is given self.id.
SaveDispatches(a, old_submitted_value, submitted) ==
    IF old_submitted_value = Some(FALSE) /\ submitted
    THEN {Job(ScoreTask, a), Job(FirstAttemptTask, a),
          Job(FeedbackTask, a), Job(ProfileTask, a)}
    ELSE IF submitted /\ ~HasFeedback(a)
         THEN {Job(FeedbackTask, a)}
         ELSE {}

\* .delay() of each job of a set.
Dispatch(jobs) ==
    /\ \A job \in jobs : CopiesIn(job, dispatches) < MaxDispatches
    /\ dispatches' = dispatches (+) SetToBag(jobs)

\* UserQuestAttempt.objects.create(student, quest, submitted): save() of a new
\* row.  The attempt's answer rows are stored with it.
CreateAndSave(s, q, submitted, sel) ==
    LET a == Len(attempts) + 1
        jobs == SaveDispatches(a, None, submitted)
    IN  /\ a \in AttemptIds
        /\ attempts' = Append(attempts,
                              [student |-> s, quest |-> q, submitted |-> submitted,
                               first_attempted_date |-> Some(0),
                               last_attempted_date |->
                                   IF submitted THEN Some(1) ELSE None,
                               total_score_achieved |-> 0])
        /\ answer_attempts' =
             Append(answer_attempts,
                    [k \in DOMAIN sel |->
                        [question |-> 1, answer |-> k, is_selected |-> sel[k],
                         is_correct |-> sel[k], hint_used |-> FALSE,
                         score_achieved |-> 0]])
        /\ Dispatch(jobs)
        /\ queue' = queue \cup jobs
        /\ last_scored' = 0
        /\ UNCHANGED <<catalogue, expiration_date, total_points, redeliveries, scoreVars, badgeVars,
                       feedback, profiles, user_id>>

\* save() of a stored attempt: the row is written with the submitted value the
\* caller set, then the jobs are dispatched.
SaveStored(a, submitted) ==
    LET jobs == SaveDispatches(a, Some(attempts[a].submitted), submitted)
    IN  /\ a \in DOMAIN attempts
        /\ attempts' = [attempts EXCEPT ![a].submitted = submitted,
                                        ![a].last_attempted_date =
                                            IF submitted THEN Some(1) ELSE @]
        /\ Dispatch(jobs)
        /\ queue' = queue \cup jobs
        /\ last_scored' = 0
        /\ UNCHANGED <<catalogue, expiration_date, answer_attempts, total_points, redeliveries,
                       scoreVars, badgeVars, feedback, profiles, user_id>>

\* save() of a stored attempt with submitted as it is or set to True.
SaveAttempt(a, submitted) ==
    /\ a \in DOMAIN attempts
    /\ attempts[a].submitted => submitted
    /\ SaveStored(a, submitted)

\* calculate_score_and_issue_points with the dispatches of its instance.save():
\* the instance was just read, so submitted is old and new value alike.
CalculateScoreAndSave(a, order, ack) ==
    LET jobs == SaveDispatches(a, Some(attempts[a].submitted), attempts[a].submitted)
    IN  /\ CalculateScoreAndIssuePoints(a, order, ack, jobs)
        /\ Dispatch(jobs)
        /\ UNCHANGED <<feedback, profiles, user_id>>

\* ------------------------------------------------ Feedback Payload Builder (tasks.py)
\* The fields of StudentFeedback the job writes, and the default of each in
\* feedback_data.get(name, default): [] for the lists, {} for the dicts, ''.
FeedbackFields == {"quest_summary", "subtopic_feedback", "study_tips", "strengths",
                   "weaknesses", "recommendations", "question_feedback"}
FeedbackDefault(name) ==
    IF name \in {"quest_summary", "question_feedback"} THEN "{}"
    ELSE IF name = "recommendations" THEN "" ELSE "[]"

\* Mutant: a field the response lacks keeps the value the record has.
FeedbackDefaultsKept(feedback_data, a) ==
    [name \in FeedbackFields |->
        IF name \in DOMAIN feedback_data THEN feedback_data[name]
        ELSE IF \E i \in DOMAIN feedback : feedback[i].user_quest_attempt = a
             THEN LET i == CHOOSE j \in DOMAIN feedback : feedback[j].user_quest_attempt = a
                  IN  feedback[i].fields[name]
             ELSE FeedbackDefault(name)]

\* defaults={...} of update_or_create: every field, from the response's JSON
\* or its default (a is the attempt the record belongs to).
FeedbackDefaults(feedback_data, a) ==
    [name \in FeedbackFields |->
        IF name \in DOMAIN feedback_data THEN feedback_data[name]
        ELSE FeedbackDefault(name)]

\* Mutant: response.status_code is not looked at.
ResponseOkAlways(response) == TRUE

\* if response.status_code == 200: feedback_data = response.json().  A response
\* is Some(JSON object) for status 200 and None for any other status, a
\* timeout or a transport error (an exception, caught at the end of the job);
\* the body of an error has none of the fields.
ResponseOk(response) == response # None
FeedbackDataOf(response) == IF response = None THEN <<>> ELSE response[1]

\* Mutant: the table has no uniqueness constraint on user_quest_attempt.
InsertFeedbackUnconstrained(table, row) == [ok |-> TRUE, table |-> Append(table, row)]

\* INSERT of a row: user_quest_attempt is a OneToOneField, so the insertion
\* of a second row for an attempt fails with IntegrityError.
InsertFeedback(table, row) ==
    IF \E i \in DOMAIN table : table[i].user_quest_attempt = row.user_quest_attempt
    THEN [ok |-> FALSE, table |-> table]
    ELSE [ok |-> TRUE, table |-> Append(table, row)]

\* setattr of every default on the rows get() found, and save().
UpdateFeedback(table, a, fields) ==
    [i \in DOMAIN table |->
        IF table[i].user_quest_attempt = a THEN [table[i] EXCEPT !.fields = fields]
        ELSE table[i]]

\* StudentFeedback.objects.update_or_create(user_quest_attempt=..., defaults=...)
\* executed without interruption.
UpdateOrCreate(table, a, fields) ==
    IF \E i \in DOMAIN table : table[i].user_quest_attempt = a
    THEN UpdateFeedback(table, a, fields)
    ELSE InsertFeedback(table, [user_quest_attempt |-> a, fields |-> fields]).table

\* generate_personalised_feedback(user_quest_attempt_id): on status 200 of the
\* feedback service update_or_create stores the attempt's StudentFeedback;
\* any other answer, or an exception, stores nothing.
GeneratePersonalisedFeedback(a, response, ack) ==
    /\ JobDone(Job(FeedbackTask, a), ack, {})
    /\ feedback' = IF ResponseOk(response) /\ a \in DOMAIN attempts
                   THEN UpdateOrCreate(feedback, a,
                                       FeedbackDefaults(FeedbackDataOf(response), a))
                   ELSE feedback
    /\ UNCHANGED <<catalogue, expiration_date, attempts, answer_attempts, total_points, scoreVars,
                   badgeVars, dispatches, profiles, user_id>>

\* The job as a worker executes it, statement by statement: the request to the
\* feedback service, then update_or_create, which is a get(), a create() when
\* get() found no row, and an update of the row when get() found one or when
\* create() failed with IntegrityError and the second get() found one.
FeedbackWorkerTakes(w, job, ack) ==
    /\ workers[w] = Idle
    /\ job.task = FeedbackTask
    /\ CanDeliver(job, ack)
    /\ workers' = [workers EXCEPT ![w] =
                      [task |-> job.task, arg |-> job.arg, pc |-> "post",
                       response |-> None]]
    /\ queue' = Delivered(job, ack)
    /\ redeliveries' = Counted(job, ack)
    /\ last_scored' = 0
    /\ UNCHANGED <<catalogue, expiration_date, feedbackVars, attempts, answer_attempts, total_points,
                   scoreVars, quest_status, course_status, completed_on,
                   quest_badges, course_badges>>

\* What a worker's step leaves alone but for the feedback table.
FeedbackWorkerFrame ==
    /\ last_scored' = 0
    /\ UNCHANGED <<catalogue, expiration_date, attempts, answer_attempts, total_points, scoreVars,
                   quest_status, course_status, completed_on, quest_badges,
                   course_badges, queue, redeliveries, dispatches, profiles, user_id>>

\* response = requests.post(...), or the exception it raises.
FeedbackWorkerPosts(w, response) ==
    /\ workers[w].pc = "post"
    /\ workers' = [workers EXCEPT ![w] = [@ EXCEPT !.pc = "status", !.response = response]]
    /\ feedback' = feedback
    /\ FeedbackWorkerFrame

\* if response.status_code == 200: ... else the job ends (as it does in the
\* except clause).
FeedbackWorkerChecksStatus(w) ==
    /\ workers[w].pc = "status"
    /\ workers' = [workers EXCEPT ![w] =
                      IF ResponseOk(workers[w].response) THEN [@ EXCEPT !.pc = "get"]
                      ELSE Idle]
    /\ feedback' = feedback
    /\ FeedbackWorkerFrame

FeedbackWorkerGets(w) ==
    /\ workers[w].pc = "get"
    /\ workers' = [workers EXCEPT ![w].pc =
                      IF HasFeedback(workers[w].arg) THEN "update" ELSE "create"]
    /\ feedback' = feedback
    /\ FeedbackWorkerFrame

FeedbackWorkerCreates(w) ==
    /\ workers[w].pc = "create"
    /\ LET a == workers[w].arg
           fields == FeedbackDefaults(FeedbackDataOf(workers[w].response), a)
           r == InsertFeedback(feedback, [user_quest_attempt |-> a, fields |-> fields])
       IN  /\ feedback' = r.table
           /\ workers' = [workers EXCEPT ![w] =
                             IF r.ok THEN Idle ELSE [@ EXCEPT !.pc = "update"]]
    /\ FeedbackWorkerFrame

FeedbackWorkerUpdates(w) ==
    /\ workers[w].pc = "update"
    /\ LET a == workers[w].arg
       IN  feedback' = UpdateFeedback(feedback, a,
                          FeedbackDefaults(FeedbackDataOf(workers[w].response), a))
    /\ workers' = [workers EXCEPT ![w] = Idle]
    /\ FeedbackWorkerFrame

\* ------------------------------------------------ Cognitive Profile Aggregator (tasks.py)
\* The keys the six accuracies are read from.
Levels == {"Remember", "Understand", "Apply", "Analyze", "Evaluate", "Create"}

\* Accuracies are exact numbers in units of 1/PercentUnit percent (the code
\* computes them in floating point): every quotient of up to
\* MaxObservationRows + MaxLaterRows observations is a whole number of units.
PercentUnit == Fact(MaxObservationRows + MaxLaterRows)

\* The answer attempts of every attempt at all of the student.
ObservationsAnyAttempt(s) ==
    {o \in (DOMAIN attempts) \X (1..MaxObservationRows) :
        /\ o[2] \in DOMAIN answer_attempts[o[1]]
        /\ attempts[o[1]].student = s}

\* for attempt in all_attempts: for answer_attempt in attempt.answer_attempts.all()
\* with all_attempts the submitted attempts of the student; <<attempt id, row>>.
Observations(s) ==
    {o \in (DOMAIN attempts) \X (1..MaxObservationRows) :
        /\ o[2] \in DOMAIN answer_attempts[o[1]]
        /\ attempts[o[1]].student = s
        /\ attempts[o[1]].submitted}

ObservedRow(o) == answer_attempts[o[1]][o[2]]
\* answer_attempt.question
ObservedQuestion(o) == questions[attempts[o[1]].quest][ObservedRow(o).question]

\* getattr(question, 'cognitive_level', 'Understand'): the attribute exists,
\* so this is the column's value, None where it is NULL; topic likewise.
LevelKey(o) == ObservedQuestion(o).cognitive_level
TopicKey(o) == ObservedQuestion(o).topic

\* level_stats[key] and topic_stats[key]: total and correct of a bucket.
Stats(obs) ==
    [total |-> Cardinality(obs),
     correct |-> Cardinality({o \in obs : ObservedRow(o).is_correct})]
LevelStats(s, key) == Stats({o \in Observations(s) : LevelKey(o) = key})
TopicStats(s, key) == Stats({o \in Observations(s) : TopicKey(o) = key})

\* (correct / max(total, 1)) * 100
Accuracy(stats) == (stats.correct * 100 * PercentUnit) \div Max(stats.total, 1)

\* Mutant: the topics found weak are added to the map the profile had.
WeakTopicsMerged(s) ==
    LET keys == {TopicKey(o) : o \in Observations(s)}
        weak == {t \in keys : Accuracy(TopicStats(s, t)) < 60 * PercentUnit}
        old == IF profiles[s] = None THEN <<>> ELSE profiles[s][1].weak_topics
    IN  [t \in weak \cup DOMAIN old |->
            IF t \in weak THEN Accuracy(TopicStats(s, t)) ELSE old[t]]

\* weak_topics: the topics seen (total > 0) with accuracy < 60, a new dict.
WeakTopics(s) ==
    LET keys == {TopicKey(o) : o \in Observations(s)}
        weak == {t \in keys : Accuracy(TopicStats(s, t)) < 60 * PercentUnit}
    IN  [t \in weak |-> Accuracy(TopicStats(s, t))]

\* The six accuracies, and competency level and difficulty from their mean.
LevelAccuracies(s) == [level \in Levels |-> Accuracy(LevelStats(s, Some(level)))]

RECURSIVE SumOver(_, _)
SumOver(f, keys) ==
    IF keys = {} THEN 0
    ELSE LET k == CHOOSE x \in keys : TRUE IN f[k] + SumOver(f, keys \ {k})

\* Mutant: the thresholds are exclusive.
CompetencyStrict(total, n) ==
    IF total > 80 * PercentUnit * n THEN <<"Advanced", 8>>
    ELSE IF total > 60 * PercentUnit * n THEN <<"Intermediate", 5>>
    ELSE <<"Beginner", 3>>

\* avg_accuracy = sum([...]) / 6 against 80 and 60: competency_level and
\* recommend_difficulty, from the sum of the n accuracies.
Competency(total, n) ==
    IF total >= 80 * PercentUnit * n THEN <<"Advanced", 8>>
    ELSE IF total >= 60 * PercentUnit * n THEN <<"Intermediate", 5>>
    ELSE <<"Beginner", 3>>

\* Mutant: the new accuracies are merged with those the profile held.
CognitiveProfileMerged(s) ==
    LET accuracy == [level \in Levels |->
                        IF profiles[s] = None THEN LevelAccuracies(s)[level]
                        ELSE (profiles[s][1].accuracy[level]
                                + LevelAccuracies(s)[level]) \div 2]
        competency == Competency(SumOver(accuracy, Levels), Cardinality(Levels))
    IN  [accuracy |-> accuracy,
         weak_topics |-> WeakTopics(s),
         competency_level |-> competency[1],
         recommend_difficulty |-> competency[2]]

\* The profile the job stores: every field assigned anew from the statistics.
CognitiveProfile(s) ==
    LET accuracy == LevelAccuracies(s)
        competency == Competency(SumOver(accuracy, Levels), Cardinality(Levels))
    IN  [accuracy |-> accuracy,
         weak_topics |-> WeakTopics(s),
         competency_level |-> competency[1],
         recommend_difficulty |-> competency[2]]

\* update_cognitive_profile(student_id): EduquestUser.objects.get(id=student_id)
\* and the profile of that user is recomputed and saved; when there is no such
\* user the exception is caught and nothing is written.
UpdateCognitiveProfile(student_id, ack) ==
    /\ JobDone(Job(ProfileTask, student_id), ack, {})
    /\ profiles' = [s \in Students |->
                       IF user_id[s] = student_id
                       THEN Some(CognitiveProfile(s)) ELSE profiles[s]]
    /\ UNCHANGED <<catalogue, expiration_date, attempts, answer_attempts, total_points, scoreVars,
                   badgeVars, dispatches, feedback, user_id>>

\* ------------------------------------------------ specification SpecSave
\* Attempts are created and saved, and the jobs save() dispatches are executed.
\* One quest of one question (two correct options) with level and topic.
SaveQuestions ==
    <<[max_score |-> 12 * Unit, answers |-> <<TRUE, TRUE>>,
       cognitive_level |-> Some("Apply"), topic |-> Some("Python")]>>

\* EduquestUser.id: the ids the two students may have.
UserIds == 1..3

InitSave ==
    /\ quest_type = [q \in {"q1"} |-> "EduQuest MCQ"]
    /\ questions = [q \in {"q1"} |-> SaveQuestions]
    /\ attempts = <<>>
    /\ answer_attempts = <<>>
    /\ total_points = [s \in Students |-> 0]
    /\ NoBadgeState
    /\ queue = {}
    /\ redeliveries = EmptyBag
    /\ last_scored = 0
    /\ returned = None
    /\ question_scores = <<>>
    /\ expiration_date = [q \in DOMAIN quest_type |-> None]
    /\ badge_table = BadgeNames
    /\ dispatches = EmptyBag
    /\ feedback = <<>>
    /\ profiles = [s \in Students |-> None]
    /\ user_id \in {f \in [Students -> UserIds] : f["s1"] < f["s2"]}

\* In SpecSave every student selects the first of the two options.
StudentCreatesAttempt ==
    \E s \in Students, submitted \in BOOLEAN :
        CreateAndSave(s, "q1", submitted, <<TRUE, FALSE>>)
StudentSavesAttempt ==
    \E a \in DOMAIN attempts, submitted \in BOOLEAN : SaveAttempt(a, submitted)
RunScoringJobAndSave ==
    \E a \in DOMAIN attempts, ack \in BOOLEAN :
        \E order \in RowOrders(Len(answer_attempts[a])) :
            CalculateScoreAndSave(a, order, ack)
\* In SpecSave the feedback service fails or answers with every field.
FullResponse == [name \in FeedbackFields |-> "new"]
RunFeedbackJob ==
    \E a \in DOMAIN attempts, response \in {None, Some(FullResponse)}, ack \in BOOLEAN :
        GeneratePersonalisedFeedback(a, response, ack)
RunProfileJob ==
    \E student_id \in {job.arg : job \in queue}, ack \in BOOLEAN :
        UpdateCognitiveProfile(student_id, ack)

NextSave ==
    \/ StudentCreatesAttempt
    \/ StudentSavesAttempt
    \/ RunScoringJobAndSave
    \/ RunFeedbackJob
    \/ RunProfileJob

SpecSave == InitSave /\ [][NextSave]_vars

\* ------------------------------------------------ specification SpecProfile
\* update_cognitive_profile on any table: a quest of two questions, the first
\* on Python with or without a level, the second an Apply question with or
\* without a topic; s1 has a submitted attempt and one in progress that is
\* handed in later, s2 a submitted attempt with one correct answer.
ProfileQuestionConfigs ==
    {<<[max_score |-> 12 * Unit, answers |-> <<TRUE, TRUE>>,
        cognitive_level |-> level, topic |-> Some("Python")],
       [max_score |-> 12 * Unit, answers |-> <<TRUE, TRUE>>,
        cognitive_level |-> Some("Apply"), topic |-> topic]>> :
        level \in {None, Some("Analyze")},
        topic \in {None, Some("Python"), Some("SQL")}}

\* An answer row: the question it answers and UserAnswerAttempt.is_correct.
ObservationKinds == (1..2) \X BOOLEAN
KindKey(k) == 2 * k[1] + (IF k[2] THEN 1 ELSE 0)
\* The rows of an attempt, up to their order, which no job reads.
RowsOfAttempt(n) ==
    {r \in SeqsUpTo(ObservationKinds, n) :
        \A i, j \in DOMAIN r : i < j => KindKey(r[i]) <= KindKey(r[j])}
AnswerRows(r) ==
    [i \in DOMAIN r |->
        [question |-> r[i][1], answer |-> 1, is_selected |-> TRUE,
         is_correct |-> r[i][2], hint_used |-> FALSE, score_achieved |-> 0]]
ProfileAttempt(s, submitted) ==
    [student |-> s, quest |-> "q1", submitted |-> submitted,
     first_attempted_date |-> Some(0),
     last_attempted_date |-> IF submitted THEN Some(1) ELSE None,
     total_score_achieved |-> 0]

InitProfile ==
    /\ quest_type = [q \in {"q1"} |-> "EduQuest MCQ"]
    /\ \E qs \in ProfileQuestionConfigs : questions = [q \in {"q1"} |-> qs]
    /\ attempts = <<ProfileAttempt("s1", TRUE), ProfileAttempt("s1", FALSE),
                    ProfileAttempt("s2", TRUE)>>
    /\ \E first \in RowsOfAttempt(MaxObservationRows), later \in RowsOfAttempt(MaxLaterRows) :
         answer_attempts = <<AnswerRows(first), AnswerRows(later),
                             AnswerRows(<<<<1, TRUE>>>>)>>
    /\ total_points = [s \in Students |-> 0]
    /\ NoBadgeState
    /\ queue = {Job(ProfileTask, 1)}
    /\ redeliveries = EmptyBag
    /\ last_scored = 0
    /\ returned = None
    /\ question_scores = <<>>
    /\ expiration_date = [q \in DOMAIN quest_type |-> None]
    /\ badge_table = BadgeNames
    /\ NoFeedbackState

StudentSubmitsLater ==
    \E a \in DOMAIN attempts : ~attempts[a].submitted /\ SaveAttempt(a, TRUE)

NextProfile == StudentSubmitsLater \/ RunProfileJob

SpecProfile == InitProfile /\ [][NextProfile]_vars

\* ------------------------------------------------ specification SpecFeedback
\* Two submitted attempts whose feedback jobs are executed by two workers at
\* the same time; the service fails, answers with every field, or answers
\* with the quest summary only.
Responses ==
    {None, Some(FullResponse), Some([name \in {"quest_summary"} |-> "other"])}

InitFeedback ==
    /\ quest_type = [q \in {"q1"} |-> "EduQuest MCQ"]
    /\ questions = [q \in {"q1"} |-> SaveQuestions]
    /\ attempts = <<ProfileAttempt("s1", TRUE), ProfileAttempt("s2", TRUE)>>
    /\ answer_attempts = <<<<>>, <<>>>>
    /\ total_points = [s \in Students |-> 0]
    /\ NoBadgeState
    /\ queue = {Job(FeedbackTask, 1), Job(FeedbackTask, 2)}
    /\ redeliveries = EmptyBag
    /\ last_scored = 0
    /\ returned = None
    /\ question_scores = <<>>
    /\ expiration_date = [q \in DOMAIN quest_type |-> None]
    /\ badge_table = BadgeNames
    /\ NoFeedbackState

WorkerStartsFeedback ==
    \E w \in Workers, a \in DOMAIN attempts, ack \in BOOLEAN :
        FeedbackWorkerTakes(w, Job(FeedbackTask, a), ack)
WorkerCallsService == \E w \in Workers, response \in Responses : FeedbackWorkerPosts(w, response)
WorkerChecksStatus == \E w \in Workers : FeedbackWorkerChecksStatus(w)
WorkerLooksUpFeedback == \E w \in Workers : FeedbackWorkerGets(w)
WorkerCreatesFeedback == \E w \in Workers : FeedbackWorkerCreates(w)
WorkerUpdatesFeedback == \E w \in Workers : FeedbackWorkerUpdates(w)

NextFeedback ==
    \/ WorkerStartsFeedback
    \/ WorkerCallsService
    \/ WorkerChecksStatus
    \/ WorkerLooksUpFeedback
    \/ WorkerCreatesFeedback
    \/ WorkerUpdatesFeedback

SpecFeedback == InitFeedback /\ [][NextFeedback]_vars

\* ------------------------------------------------ the scoring job, statement by statement
\* calculate_score_and_issue_points as one of several workers executes it.  The
\* statements of the with transaction.atomic() block are one database
\* transaction: the other workers do not see what it wrote before the block is
\* left, it reads what is committed and what it wrote itself, and a row it has
\* written is locked until then.  The queue is no part of the database: a job
\* dispatched inside the block is in the queue at once.

\* instance.save(update_fields=['total_score_achieved']): the columns written.
UpdateFields == {"total_score_achieved"}

\* Mutant: save() without update_fields, which writes every column of the instance.
SavedRowEveryColumn(stored, instance, update_fields) == instance

\* The stored row after instance.save(update_fields=...).
SavedRow(stored, instance, update_fields) ==
    [c \in DOMAIN stored |-> IF c \in update_fields THEN instance[c] ELSE stored[c]]

\* The attempt's row was written by a transaction that has not ended.
RowLocked(a) ==
    \E w \in Workers : /\ workers[w].task = ScoreTask
                        /\ workers[w].arg = a
                        /\ workers[w].pc \in {"highest", "commit"}

\* The attempts as the transaction of worker w reads them.
VisibleAttempts(w) ==
    [attempts EXCEPT ![workers[w].arg] = SavedRow(@, workers[w].instance, UpdateFields)]

\* instance = UserQuestAttempt.objects.get(id=user_quest_attempt_id)
ScoreWorkerTakes(w, job, ack) ==
    /\ workers[w] = Idle
    /\ job.task = ScoreTask
    /\ job.arg \in DOMAIN attempts
    /\ CanDeliver(job, ack)
    /\ workers' = [workers EXCEPT ![w] =
                      [task |-> ScoreTask, arg |-> job.arg, pc |-> "save",
                       instance |-> attempts[job.arg], rows |-> <<>>,
                       highest_score_achieved |-> 0, total_points |-> 0]]
    /\ queue' = Delivered(job, ack)
    /\ redeliveries' = Counted(job, ack)
    /\ last_scored' = 0
    /\ UNCHANGED <<catalogue, expiration_date, feedbackVars, attempts, answer_attempts, total_points,
                   scoreVars, quest_status, course_status, completed_on,
                   quest_badges, course_badges>>

\* The block is entered; the score is computed and written to the instance and,
\* inside the transaction, to its row; save() dispatches what its hook finds,
\* and award_perfectionist_badge is dispatched.
ScoreWorkerSaves(w, order) ==
    LET a == workers[w].arg
        instance == workers[w].instance
        r == CalculateTotalScoreAchieved(questions[instance.quest],
                                         answer_attempts[a], order)
        jobs == SaveDispatches(a, Some(attempts[a].submitted), instance.submitted)
    IN  /\ workers[w].task = ScoreTask
        /\ workers[w].pc = "save"
        /\ ~RowLocked(a)
        /\ order \in RowOrders(Len(answer_attempts[a]))
        /\ workers' = [workers EXCEPT ![w].instance.total_score_achieved = r.total_score,
                                      ![w].rows = r.rows,
                                      ![w].pc = "highest"]
        /\ Dispatch(jobs)
        /\ queue' = queue \cup jobs \cup {Job(PerfectionistTask, a)}
        /\ last_scored' = 0
        /\ UNCHANGED <<catalogue, expiration_date, attempts, answer_attempts, total_points, redeliveries,
                       scoreVars, quest_status, course_status, completed_on,
                       quest_badges, course_badges, feedback, profiles, user_id>>

\* instance.student is loaded and the highest score of the student's other
\* submitted attempts at the quest is read.
ScoreWorkerReadsHighest(w) ==
    /\ workers[w].task = ScoreTask
    /\ workers[w].pc = "highest"
    /\ workers' = [workers EXCEPT
                      ![w].highest_score_achieved =
                          HighestScoreAchieved(VisibleAttempts(w), workers[w].arg),
                      ![w].total_points = total_points[workers[w].instance.student],
                      ![w].pc = "commit"]
    /\ last_scored' = 0
    /\ UNCHANGED <<catalogue, expiration_date, feedbackVars, attempts, answer_attempts, total_points,
                   queue, redeliveries, scoreVars, quest_status, course_status,
                   completed_on, quest_badges, course_badges>>

\* instance.student.total_points grows by the improvement and the student is
\* saved with update_fields=['total_points']; the block is left and what the
\* transaction wrote is committed.
ScoreWorkerCommits(w) ==
    LET a == workers[w].arg
        instance == workers[w].instance
        highest_score_achieved == workers[w].highest_score_achieved
    IN  /\ workers[w].task = ScoreTask
        /\ workers[w].pc = "commit"
        /\ attempts' = VisibleAttempts(w)
        /\ answer_attempts' = [answer_attempts EXCEPT ![a] = workers[w].rows]
        /\ total_points' =
             IF IssuesPoints(instance.total_score_achieved, highest_score_achieved,
                             instance.quest)
             THEN [total_points EXCEPT ![instance.student] =
                     workers[w].total_points
                         + PointsToAdd(instance.total_score_achieved,
                                       highest_score_achieved)]
             ELSE total_points
        /\ workers' = [workers EXCEPT ![w] = Idle]
        /\ last_scored' = a
        /\ UNCHANGED <<catalogue, expiration_date, feedbackVars, queue, redeliveries, scoreVars,
                       quest_status, course_status, completed_on, quest_badges,
                       course_badges>>

\* ------------------------------------------------ specification SpecTxn
\* One student has handed in two attempts at one quest, and the jobs the two
\* save() calls dispatched are in the queue.  Two workers execute the scoring,
\* First Attempt and Perfectionist jobs statement by statement.
TxnSelections == {<<TRUE, FALSE>>, <<TRUE, TRUE>>}

TxnAttempt(sel, submitted) ==
    [row |-> [student |-> "s1", quest |-> "q1", submitted |-> submitted,
              first_attempted_date |-> Some(0),
              last_attempted_date |-> IF submitted THEN Some(1) ELSE None,
              total_score_achieved |-> 0],
     answers |-> [k \in DOMAIN sel |->
                    [question |-> 1, answer |-> k, is_selected |-> sel[k],
                     is_correct |-> sel[k], hint_used |-> FALSE,
                     score_achieved |-> 0]]]

InitTxn ==
    /\ quest_type = [q \in {"q1"} |-> "EduQuest MCQ"]
    /\ questions = [q \in {"q1"} |-> SaveQuestions]
    /\ \E sel \in [AttemptIds -> TxnSelections] :
          /\ attempts = [a \in AttemptIds |-> TxnAttempt(sel[a], TRUE).row]
          /\ answer_attempts = [a \in AttemptIds |-> TxnAttempt(sel[a], TRUE).answers]
    /\ total_points = [s \in Students |-> 0]
    /\ NoBadgeState
    /\ queue = UNION {SaveDispatches(a, Some(FALSE), TRUE) : a \in AttemptIds}
    /\ redeliveries = EmptyBag
    /\ last_scored = 0
    /\ returned = None
    /\ question_scores = <<>>
    /\ expiration_date = [q \in DOMAIN quest_type |-> None]
    /\ badge_table = BadgeNames
    /\ dispatches = SetToBag(queue)
    /\ feedback = <<>>
    /\ profiles = [s \in Students |-> None]
    /\ user_id = [s \in Students |-> IF s = "s1" THEN 1 ELSE 2]

ScoreWorkerStarts ==
    \E w \in Workers, a \in DOMAIN attempts, ack \in BOOLEAN :
        ScoreWorkerTakes(w, Job(ScoreTask, a), ack)
ScoreWorkerSavesScore ==
    \E w \in {v \in Workers : workers[v].task = ScoreTask} :
        \E order \in RowOrders(Len(answer_attempts[workers[w].arg])) :
            ScoreWorkerSaves(w, order)
ScoreWorkerReadsPriorBest == \E w \in Workers : ScoreWorkerReadsHighest(w)
ScoreWorkerLeavesBlock == \E w \in Workers : ScoreWorkerCommits(w)

NextTxn ==
    \/ ScoreWorkerStarts
    \/ ScoreWorkerSavesScore
    \/ ScoreWorkerReadsPriorBest
    \/ ScoreWorkerLeavesBlock
    \/ WorkerStarts
    \/ WorkerChecksConditions
    \/ WorkerLooksUpBadge
    \/ WorkerCreatesBadge

SpecTxn == InitTxn /\ [][NextTxn]_vars

\* ------------------------------------------------ specification SpecResave
\* One student saves one attempt again and again, with submitted set either
\* way, and every job save() dispatches is executed: the scoring job statement
\* by statement, the other jobs without interruption.
InitResave ==
    /\ quest_type = [q \in {"q1"} |-> "EduQuest MCQ"]
    /\ questions = [q \in {"q1"} |-> SaveQuestions]
    /\ \E sel \in TxnSelections :
          /\ attempts = <<TxnAttempt(sel, FALSE).row>>
          /\ answer_attempts = <<TxnAttempt(sel, FALSE).answers>>
    /\ total_points = [s \in Students |-> 0]
    /\ NoBadgeState
    /\ queue = {}
    /\ redeliveries = EmptyBag
    /\ last_scored = 0
    /\ returned = None
    /\ question_scores = <<>>
    /\ expiration_date = [q \in DOMAIN quest_type |-> None]
    /\ badge_table = BadgeNames
    /\ NoFeedbackState

\* The student saves an attempt no transaction has written to.
StudentSavesStored ==
    \E a \in DOMAIN attempts, submitted \in BOOLEAN :
        ~RowLocked(a) /\ SaveStored(a, submitted)

NextResave ==
    \/ StudentSavesStored
    \/ ScoreWorkerStarts
    \/ ScoreWorkerSavesScore
    \/ ScoreWorkerReadsPriorBest
    \/ ScoreWorkerLeavesBlock
    \/ RunFirstAttemptJob
    \/ RunPerfectionistJob
    \/ RunFeedbackJob
    \/ RunProfileJob

SpecResave == InitResave /\ [][NextResave]_vars

\* ------------------------------------------------ specification SpecTier
\* update_cognitive_profile on a quest with one question per level; s1 has one
\* submitted attempt per question.  The answers of a level are chosen so that
\* its accuracy (0, 50, 60, 80 or 100) and every sum of accuracies are numbers
\* a double holds exactly: on these tables the exact arithmetic of
\* Competency is the floating-point arithmetic of the code.
TierLevels == <<"Remember", "Understand", "Apply", "Analyze", "Evaluate", "Create">>
TierQuestions ==
    [i \in DOMAIN TierLevels |->
        [max_score |-> 12 * Unit, answers |-> <<TRUE, TRUE>>,
         cognitive_level |-> Some(TierLevels[i]), topic |-> Some("Python")]]
\* <<correct, total>> of the answers to one question.
TierAnswers == {<<0, 0>>, <<1, 2>>, <<1, 1>>, <<3, 5>>, <<4, 5>>}

InitTier ==
    /\ quest_type = [q \in {"q1"} |-> "EduQuest MCQ"]
    /\ questions = [q \in {"q1"} |-> TierQuestions]
    /\ attempts = [i \in DOMAIN TierLevels |-> ProfileAttempt("s1", TRUE)]
    /\ \E f \in [DOMAIN TierLevels -> TierAnswers] :
         answer_attempts =
            [i \in DOMAIN TierLevels |->
                AnswerRows([k \in 1..f[i][2] |-> <<i, k <= f[i][1]>>])]
    /\ total_points = [s \in Students |-> 0]
    /\ NoBadgeState
    /\ queue = {Job(ProfileTask, 1)}
    /\ redeliveries = EmptyBag
    /\ last_scored = 0
    /\ returned = None
    /\ question_scores = <<>>
    /\ expiration_date = [q \in DOMAIN quest_type |-> None]
    /\ badge_table = BadgeNames
    /\ NoFeedbackState

NextTier == RunProfileJob

SpecTier == InitTier /\ [][NextTier]_vars

\* ------------------------------------------------ Score Calculator: properties
\* The quantities the properties are stated in, counted from the tables directly.
ScoredQuestions == questions["q1"]
ScoredRows == answer_attempts[1]

\* Rows of question qi that are selected and whose answer is globally correct.
SelectedCorrect(qi) ==
    {i \in DOMAIN ScoredRows :
        /\ ScoredRows[i].question = qi
        /\ ScoredRows[i].is_selected
        /\ ScoredQuestions[qi].answers[ScoredRows[i].answer]}

CorrectOptions(qi) ==
    {k \in DOMAIN ScoredQuestions[qi].answers : ScoredQuestions[qi].answers[k]}

\* k * maxScore / max(numCorrectOptions, 1)
UnpenalisedSubtotal(qi) ==
    (Cardinality(SelectedCorrect(qi)) * ScoredQuestions[qi].max_score)
        \div Max(Cardinality(CorrectOptions(qi)), 1)

AnyHint(qi) ==
    \E i \in DOMAIN ScoredRows : ScoredRows[i].question = qi /\ ScoredRows[i].hint_used

ExpectedSubtotal(qi) ==
    Max(0, UnpenalisedSubtotal(qi) - (IF AnyHint(qi) THEN 5 * Unit ELSE 0))

\* C3 (as claimed): a call of calculate_total_score_achieved on an attempt that
\* was scored before, with unchanged questions, answers and answer attempts,
\* returns the same total and leaves every score_achieved as the call before
\* left it.
ScoreIdempotent ==
    [][returned # None =>
          (returned' = returned /\ answer_attempts' = answer_attempts)]_vars

\* C4: after scoring, every question's subtotal is >= 0 and at most the
\* subtotal without the penalty, and no score_achieved is negative.
HintPenaltyBound ==
    returned # None =>
        /\ \A qi \in DOMAIN ScoredQuestions :
              /\ question_scores[qi] >= 0
              /\ question_scores[qi] <= UnpenalisedSubtotal(qi)
        /\ \A i \in DOMAIN ScoredRows : ScoredRows[i].score_achieved >= 0

\* C4 witness: a scored question with a hint whose unpenalised subtotal is
\* positive and below the penalty, so the clamp at 0 acts.
HintPenaltyClampReached ==
    /\ returned # None
    /\ \E qi \in DOMAIN ScoredQuestions :
          /\ AnyHint(qi)
          /\ UnpenalisedSubtotal(qi) > 0
          /\ UnpenalisedSubtotal(qi) < 5 * Unit
          /\ question_scores[qi] = 0

SubmittedAttempts(s, q) ==
    {a \in DOMAIN attempts : /\ attempts[a].student = s
                             /\ attempts[a].quest = q
                             /\ attempts[a].submitted}

\* max(scores), 0 for a student without a score at the quest.
BestScore(s, q) ==
    SetMax({0} \cup {attempts[a].total_score_achieved : a \in SubmittedAttempts(s, q)})

RECURSIVE SumOfBestScores(_, _)
SumOfBestScores(s, qs) ==
    IF qs = {} THEN 0
    ELSE LET q == CHOOSE x \in qs : TRUE
         IN  BestScore(s, q) + SumOfBestScores(s, qs \ {q})

NonPrivateQuests == {q \in DOMAIN quest_type : quest_type[q] # "Private"}

\* C1: when the scoring job has run at most once per attempt (no delivery was
\* left unacknowledged), the increments applied to a student's total_points add
\* up, for each non-private quest, to the best total_score_achieved among the
\* student's attempts at it, and not to the sum of the scores.
MarginalCredit ==
    redeliveries = EmptyBag =>
        \A s \in Students : total_points[s] = SumOfBestScores(s, NonPrivateQuests)

\* Two attempts of s1 at the non-private quest were both scored, once each, with
\* different positive scores.
MarginalCreditTwoAttempts ==
    /\ redeliveries = EmptyBag
    /\ Len(attempts) = 2
    /\ \A a \in DOMAIN attempts :
          /\ attempts[a].student = "s1" /\ attempts[a].quest = "q1"
          /\ attempts[a].submitted
          /\ Job(ScoreTask, a) \notin queue
          /\ attempts[a].total_score_achieved > 0
    /\ attempts[1].total_score_achieved # attempts[2].total_score_achieved
    /\ total_points["s1"] = Max(attempts[1].total_score_achieved,
                                attempts[2].total_score_achieved)

\* C2 (as claimed): a step that runs the scoring job for the attempt the
\* previous step ran it for leaves every student's total_points unchanged.
ScoringJobIdempotent ==
    [][\A a \in AttemptIds :
          (last_scored = a /\ last_scored' = a) => total_points' = total_points]_vars

\* C10: a step that runs the scoring job for an attempt at a Private quest
\* leaves every student's total_points unchanged.
PrivateQuestLedgerSkipped ==
    [][\A a \in DOMAIN attempts :
          (last_scored' = a /\ QuestType(attempts[a].quest) = "Private")
              => total_points' = total_points]_vars

\* The last step scored an attempt at the Private quest that beats the prior
\* best of zero points.
PrivateAttemptScored ==
    \E a \in DOMAIN attempts :
        /\ last_scored = a
        /\ QuestType(attempts[a].quest) = "Private"
        /\ attempts[a].total_score_achieved > HighestScoreAchieved(attempts, a)
        /\ total_points[attempts[a].student] = 0

\* ------------------------------------------------ Badge Rules Engine: properties
\* C6: with the awarding jobs executed one after the other, delivered again any
\* number of times, no (badge, attempt) and no (badge, enrollment) pair has more
\* than one award record.
BadgeUniqueness ==
    /\ \A k \in DOMAIN quest_badges : quest_badges[k] <= 1
    /\ \A k \in DOMAIN course_badges : course_badges[k] <= 1

\* The Perfectionist job of an attempt was executed without acknowledgement and
\* executed again, and the attempt holds the badge.
BadgeJobReExecuted ==
    \E a \in DOMAIN attempts :
        /\ CopiesIn(Job(PerfectionistTask, a), redeliveries) >= 1
        /\ Job(PerfectionistTask, a) \notin queue
        /\ Job(ScoreTask, a) \notin queue
        /\ quest_badges[<<"Perfectionist", a>>] = 1

\* C7 (as claimed): with two workers executing the First Attempt and
\* Perfectionist jobs at the same time, an attempt never holds more than one
\* record of the badge.
ConcurrentBadgeUniqueness ==
    \A t \in {FirstAttemptTask, PerfectionistTask}, a \in AttemptIds :
        quest_badges[<<BadgeOf(t), a>>] <= 1

\* The First Attempt records held by the attempts of student s.
FirstAttemptRecords(s) ==
    SeqSum([a \in DOMAIN attempts |->
               IF attempts[a].student = s THEN quest_badges[<<"First Attempt", a>>] ELSE 0])

\* C8 (as claimed): over all of a student's attempts at most one First Attempt
\* record exists, with the jobs of different attempts on two workers at once.
FirstAttemptOncePerStudent ==
    \A s \in Students : FirstAttemptRecords(s) <= 1

\* C9: no quest badge record references an attempt at a Private quest.
NoBadgeOnPrivateQuest ==
    \A b \in QuestBadgeNames, a \in DOMAIN attempts :
        QuestType(attempts[a].quest) = "Private" => quest_badges[<<b, a>>] = 0

\* A submitted attempt at the Private quest reached the maximum score, the quest
\* expired, every dispatched job was executed, and no record exists.
PrivateQuestJobsExecuted ==
    \E a \in DOMAIN attempts :
        /\ QuestType(attempts[a].quest) = "Private"
        /\ attempts[a].submitted
        /\ attempts[a].total_score_achieved = TotalMaxScore(attempts[a].quest)
        /\ quest_status[attempts[a].quest] = "Expired"
        /\ queue = {}
        /\ \A b \in QuestBadgeNames : quest_badges[<<b, a>>] = 0

Elapsed(a) ==
    IF attempts[a].first_attempted_date = None \/ attempts[a].last_attempted_date = None
    THEN 0
    ELSE Max(0, attempts[a].last_attempted_date[1] - attempts[a].first_attempted_date[1])

\* The three highest distinct scores among the attempts at quest q.
ThreeHighestScores(q) ==
    LET scores == {attempts[a].total_score_achieved :
                      a \in {b \in DOMAIN attempts : attempts[b].quest = q}}
    IN  {x \in scores : Cardinality({y \in scores : y > x}) < 3}

\* The attempts a step creates a Speedster record for.
SpeedsterAwarded ==
    {a \in RuleAttemptIds :
        quest_badges'[<<"Speedster", a>>] > quest_badges[<<"Speedster", a>>]}

\* C12 (as claimed): one execution of award_speedster_badge creates at most one
\* Speedster record; the attempt that gets it has a score above 0 and an
\* elapsed time above 0, no such attempt at the quest was faster, and its
\* score is among the three highest distinct scores of the quest.
SpeedsterSelection ==
    [][/\ Cardinality(SpeedsterAwarded) <= 1
       /\ \A a \in SpeedsterAwarded :
             /\ attempts[a].total_score_achieved > 0
             /\ Elapsed(a) > 0
             /\ \A b \in DOMAIN attempts :
                   (/\ attempts[b].quest = attempts[a].quest
                    /\ attempts[b].total_score_achieved > 0
                    /\ Elapsed(b) > 0) => Elapsed(a) <= Elapsed(b)
             /\ attempts[a].total_score_achieved \in ThreeHighestScores(attempts[a].quest)]_vars

\* The highest total_score_achieved observed at quest q, 0 without attempts.
HighestObservedScore(q) ==
    SetMax({0} \cup {attempts[a].total_score_achieved :
                        a \in {b \in DOMAIN attempts : attempts[b].quest = q}})

\* The step is an execution of award_expert_badge for quest q.
ExpertExecuted(q) ==
    /\ Job(ExpertTask, q) \in queue
    /\ <<queue, redeliveries>>' # <<queue, redeliveries>>

\* C13: an execution of award_expert_badge on an Expired, non-private quest
\* with a nonzero max score and a highest observed score above 0 leaves an
\* Expert record on every attempt with that score and creates none for an
\* attempt with a lower score; on a quest that is not Expired, or whose
\* highest score is not above 0, it creates no record.
ExpertTiesAllAward ==
    [][\A q \in DOMAIN quest_type :
          ExpertExecuted(q) =>
              IF quest_status[q] # "Expired" \/ HighestObservedScore(q) <= 0
              THEN quest_badges' = quest_badges
              ELSE (quest_type[q] # "Private" /\ questions[q] # <<>>) =>
                      \A a \in DOMAIN attempts :
                          IF attempts[a].total_score_achieved = HighestObservedScore(q)
                          THEN quest_badges'[<<"Expert", a>>] >= 1
                          ELSE quest_badges'[<<"Expert", a>>] = quest_badges[<<"Expert", a>>]]_vars

\* The job has run on a table with two attempts tied at the highest score and
\* one scored lower, above 0: the two hold the record, the third does not.
ExpertTieAwarded ==
    \E a, b, c \in DOMAIN attempts :
        /\ a # b
        /\ queue = {}
        /\ attempts[a].total_score_achieved = HighestObservedScore("q1")
        /\ attempts[b].total_score_achieved = HighestObservedScore("q1")
        /\ attempts[c].total_score_achieved > 0
        /\ attempts[c].total_score_achieved < HighestObservedScore("q1")
        /\ quest_badges[<<"Expert", a>>] = 1
        /\ quest_badges[<<"Expert", b>>] = 1
        /\ quest_badges[<<"Expert", c>>] = 0

\* ------------------------------------------------ course badges: properties
\* The quests of the course group at which student s has a submitted attempt.
SubmittedQuests(s) ==
    {attempts[a].quest : a \in {b \in DOMAIN attempts :
                                   attempts[b].student = s /\ attempts[b].submitted}}

\* The step is an execution of the Completionist job.
CompletionistExecuted ==
    /\ Job(CompletionistTask, "c1") \in queue
    /\ <<queue, redeliveries>>' # <<queue, redeliveries>>

\* C14 (as claimed): after an execution of the Completionist job an enrollment
\* holds the badge, and has completed_on set, if and only if the set of the
\* non-private quests of the course group equals the set of the quests the
\* student has a submitted attempt for.
CompletionistExactness ==
    [][CompletionistExecuted =>
          \A s \in Students :
              /\ course_badges'[<<"Completionist", s>>] >= 1
                    <=> NonPrivateQuests = SubmittedQuests(s)
              /\ completed_on'[s] <=> NonPrivateQuests = SubmittedQuests(s)]_vars

\* C14 (amended): ... if and only if the course group has at least one
\* non-private quest and the student has a submitted attempt for every
\* non-private quest of the group; submitted attempts at Private quests and
\* attempts that are not submitted do not count either way.
CompletionistExactnessNonEmpty ==
    [][CompletionistExecuted =>
          \A s \in Students :
              /\ course_badges'[<<"Completionist", s>>] >= 1
                    <=> (NonPrivateQuests # {} /\ NonPrivateQuests \subseteq SubmittedQuests(s))
              /\ completed_on'[s]
                    <=> (NonPrivateQuests # {} /\ NonPrivateQuests \subseteq SubmittedQuests(s))]_vars

\* Three non-private quests: s1 submitted all three and holds the badge, s2
\* submitted two, has an attempt in progress at the third, and holds none.
CompletionistThreeOfThree ==
    /\ NonPrivateQuests = CourseQuests
    /\ queue = {}
    /\ SubmittedQuests("s1") = CourseQuests
    /\ Cardinality(SubmittedQuests("s2")) = 2
    /\ \A q \in CourseQuests : \E a \in DOMAIN attempts :
          attempts[a].student = "s2" /\ attempts[a].quest = q
    /\ course_badges[<<"Completionist", "s1">>] = 1 /\ completed_on["s1"]
    /\ course_badges[<<"Completionist", "s2">>] = 0 /\ ~completed_on["s2"]

\* The step is an execution of the tutorial attendance job.
TutorialAttendanceExecuted ==
    /\ Job(TutorialAttendanceTask, "c1") \in queue
    /\ <<queue, redeliveries>>' # <<queue, redeliveries>>

\* The tutorial quests of the group, and those s has a submitted attempt for.
TutorialCount == Cardinality({q \in DOMAIN quest_type : quest_type[q] = "Kahoot!"})
AttendedCount(s) ==
    Cardinality({q \in SubmittedQuests(s) : quest_type[q] = "Kahoot!"})

SubmissionTasks == {ScoreTask, FirstAttemptTask, FeedbackTask, ProfileTask}
DispatchCount(task, a) == CopiesIn(Job(task, a), dispatches)
DispatchCountAfter(task, a) == CopiesIn(Job(task, a), dispatches')

\* The step executes the job; the step is a save by a client, not by a job.
Executed(job) ==
    /\ job \in queue
    /\ job \notin queue' \/ CopiesIn(job, redeliveries') > CopiesIn(job, redeliveries)
ClientSave == queue \subseteq queue' /\ redeliveries' = redeliveries

\* The step saves attempt a with submitted going from False to True.
SubmittedTransition(a) ==
    a \in DOMAIN attempts /\ ~attempts[a].submitted /\ attempts'[a].submitted

\* C16 (as claimed): the save that takes submitted from False to True dispatches
\* each of the four jobs once, and the execution of a job it started dispatches
\* none of the four again.
SubmissionDispatchesOnce ==
    [][\A a \in AttemptIds :
          /\ SubmittedTransition(a) =>
                \A t \in SubmissionTasks : DispatchCountAfter(t, a) = DispatchCount(t, a) + 1
          /\ (\E t \in SubmissionTasks : Executed(Job(t, a))) =>
                \A t \in SubmissionTasks : DispatchCountAfter(t, a) = DispatchCount(t, a)]_vars

\* C17 (as claimed): a save by a client that is not a False-to-True change of
\* submitted (the creation of an attempt, or a save of an attempt that was
\* submitted already) dispatches neither generate_personalised_feedback nor
\* update_cognitive_profile.
NoDispatchWithoutTransition ==
    [][\A a \in AttemptIds :
          (ClientSave /\ ~SubmittedTransition(a)) =>
              \A t \in {FeedbackTask, ProfileTask} :
                  DispatchCountAfter(t, a) = DispatchCount(t, a)]_vars

\* ------------------------------------------------ Cognitive Profile Aggregator: properties
\* C18 (as claimed): when the update_cognitive_profile job dispatched by the
\* submission of attempt a is executed, the profile of the student who owns a
\* is the one recomputed from that student's submitted attempts, a included,
\* and no other student's profile is written.
SubmitterProfileRecomputed ==
    [][\A a \in AttemptIds :
          (a \in DOMAIN attempts /\ Executed(Job(ProfileTask, a))) =>
              LET s == attempts[a].student
              IN  /\ attempts[a].submitted
                  /\ profiles'[s] = Some(CognitiveProfile(s))
                  /\ \A other \in Students \ {s} : profiles'[other] = profiles[other]]_vars

\* Counted from the tables: the answer rows of the submitted attempts of s at
\* questions whose column (topic or cognitive_level) has value v, and those of
\* them that are marked correct.
RowsCounted(s, column, v, correct_only) ==
    LET counts == [a \in DOMAIN attempts |->
                     IF attempts[a].student = s /\ attempts[a].submitted
                     THEN Cardinality({i \in DOMAIN answer_attempts[a] :
                             LET row == answer_attempts[a][i]
                                 question == questions[attempts[a].quest][row.question]
                             IN  /\ question[column] = v
                                 /\ correct_only => row.is_correct})
                     ELSE 0]
    IN  SeqSum(counts)

\* The values of the topic column of the quest's questions.
TopicValues == {questions["q1"][i].topic : i \in DOMAIN questions["q1"]}

\* C19: after an execution of update_cognitive_profile for student s, the
\* weak_topics map of the profile of s has exactly the topics with at least one
\* observation and accuracy strictly below 60% as its keys, each mapped to its
\* accuracy, whatever the map held before.
WeakTopicThreshold ==
    [][\A s \in Students :
          Executed(Job(ProfileTask, user_id[s])) =>
              LET map == profiles'[s][1].weak_topics
              IN  /\ DOMAIN map \subseteq TopicValues
                  /\ \A t \in TopicValues :
                        LET total == RowsCounted(s, "topic", t, FALSE)
                            correct == RowsCounted(s, "topic", t, TRUE)
                        IN  /\ t \in DOMAIN map <=>
                                  (total >= 1 /\ correct * 100 < 60 * total)
                            /\ t \in DOMAIN map =>
                                  map[t] * total = correct * 100 * PercentUnit]_vars

\* s1 had 1 of 3 Python answers correct when the job was first executed, handed
\* in two more correct ones (3 of 5, 60%), and the job was executed again:
\* Python is not in the map; s2, with 1 of 1 correct, has an empty map.
WeakTopicRemovedAtSixty ==
    /\ Job(ProfileTask, 1) \notin queue
    /\ CopiesIn(Job(ProfileTask, 1), redeliveries) = 1
    /\ attempts[2].submitted
    /\ Len(answer_attempts[1]) = 3 /\ Len(answer_attempts[2]) = 2
    /\ \A i \in 1..3 : answer_attempts[1][i].question = 1
    /\ \A i \in 1..2 : answer_attempts[2][i].question = 1
    /\ RowsCounted("s1", "topic", Some("Python"), FALSE) = 5
    /\ RowsCounted("s1", "topic", Some("Python"), TRUE) = 3
    /\ Cardinality({i \in 1..3 : answer_attempts[1][i].is_correct}) = 1
    /\ profiles["s1"] # None
    /\ Some("Python") \notin DOMAIN profiles["s1"][1].weak_topics

\* C20: after an execution of update_cognitive_profile for student s, each of
\* the six accuracies of the profile of s is correct / total * 100 over the
\* answer rows of the submitted attempts of s at questions of that level, and
\* 0 for a level without such rows; rows of attempts not submitted do not count.
PerLevelAccuracy ==
    [][\A s \in Students :
          Executed(Job(ProfileTask, user_id[s])) =>
              \A level \in {"Remember", "Understand", "Apply",
                            "Analyze", "Evaluate", "Create"} :
                  LET accuracy == profiles'[s][1].accuracy[level]
                      total == RowsCounted(s, "cognitive_level", Some(level), FALSE)
                      correct == RowsCounted(s, "cognitive_level", Some(level), TRUE)
                  IN  IF total = 0 THEN accuracy = 0
                      ELSE accuracy * total = correct * 100 * PercentUnit]_vars

\* The job was executed for s1 while the second attempt, which holds a correct
\* Apply answer, was not handed in: Analyze is 1 of 2 (50%), Apply has no
\* counted row and is 0, and so is Remember.
PerLevelAccuracyHalf ==
    /\ Job(ProfileTask, 1) \notin queue
    /\ ~attempts[2].submitted
    /\ \E i \in DOMAIN answer_attempts[2] :
          answer_attempts[2][i].question = 2 /\ answer_attempts[2][i].is_correct
    /\ questions["q1"][1].cognitive_level = Some("Analyze")
    /\ RowsCounted("s1", "cognitive_level", Some("Analyze"), FALSE) = 2
    /\ RowsCounted("s1", "cognitive_level", Some("Analyze"), TRUE) = 1
    /\ RowsCounted("s1", "cognitive_level", Some("Apply"), FALSE) = 0
    /\ profiles["s1"] # None
    /\ profiles["s1"][1].accuracy["Analyze"] = 50 * PercentUnit
    /\ profiles["s1"][1].accuracy["Apply"] = 0
    /\ profiles["s1"][1].accuracy["Remember"] = 0

\* The sum of the six stored accuracies of a profile row.
StoredAccuracySum(row) ==
    row.accuracy["Remember"] + row.accuracy["Understand"] + row.accuracy["Apply"]
        + row.accuracy["Analyze"] + row.accuracy["Evaluate"] + row.accuracy["Create"]

\* C21: after an execution of update_cognitive_profile for student s, with m
\* the mean of the six stored accuracies, the profile of s has (Advanced, 8.0)
\* if m >= 80, (Intermediate, 5.0) if 60 <= m < 80 and (Beginner, 3.0) otherwise.
CompetencyTier ==
    [][\A s \in Students :
          Executed(Job(ProfileTask, user_id[s])) =>
              LET row == profiles'[s][1]
                  sum == StoredAccuracySum(row)
                  pair == <<row.competency_level, row.recommend_difficulty>>
              IN  /\ sum >= 6 * 80 * PercentUnit => pair = <<"Advanced", 8>>
                  /\ (6 * 60 * PercentUnit <= sum /\ sum < 6 * 80 * PercentUnit)
                        => pair = <<"Intermediate", 5>>
                  /\ sum < 6 * 60 * PercentUnit => pair = <<"Beginner", 3>>]_vars

\* The mean is exactly 80 (100, 100, 100, 100, 80, 0) and the profile of s1
\* is Advanced with difficulty 8.
CompetencyTierAtEighty ==
    /\ Job(ProfileTask, 1) \notin queue
    /\ profiles["s1"] # None
    /\ profiles["s1"][1].accuracy["Evaluate"] = 80 * PercentUnit
    /\ profiles["s1"][1].accuracy["Create"] = 0
    /\ StoredAccuracySum(profiles["s1"][1]) = 6 * 80 * PercentUnit
    /\ profiles["s1"][1].competency_level = "Advanced"
    /\ profiles["s1"][1].recommend_difficulty = 8

\* ------------------------------------------------ Feedback Payload Builder: properties
\* The workers executing generate_personalised_feedback that hold the answer
\* of the feedback service.
Answered(w) == workers[w].task = FeedbackTask /\ workers[w].pc # "post"

\* C22: a run of generate_personalised_feedback whose request failed (status
\* other than 200, timeout, transport error) ends with its next step and
\* leaves the StudentFeedback table, rows and field values, as it was.
FeedbackSoftFailure ==
    [][\A w \in Workers :
          (Answered(w) /\ workers[w].response = None /\ workers'[w] # workers[w]) =>
              workers'[w] = Idle /\ feedback' = feedback]_vars

\* The request of a run for attempt 1 has failed while the attempt has a
\* record holding the fields of an earlier successful run.
FeedbackFailureWithRecord ==
    \E w \in Workers :
        /\ Answered(w) /\ workers[w].response = None /\ workers[w].arg = 1
        /\ \E i \in DOMAIN feedback :
              feedback[i].user_quest_attempt = 1 /\ feedback[i].fields = FullResponse

\* The record a run for attempt a with JSON object data leaves: every field
\* from the response, or empty when the response lacks it.
ExpectedFields(data) ==
    [name \in {"quest_summary", "subtopic_feedback", "study_tips", "strengths",
               "weaknesses", "recommendations", "question_feedback"} |->
        IF name \in DOMAIN data THEN data[name]
        ELSE IF name \in {"quest_summary", "question_feedback"} THEN "{}"
        ELSE IF name = "recommendations" THEN "" ELSE "[]"]
RecordsOf(table, a) == {i \in DOMAIN table : table[i].user_quest_attempt = a}

\* C23: every attempt has at most one StudentFeedback record, whatever runs
\* of generate_personalised_feedback are executed one after or beside the
\* other, and when a successful run ends, the attempt's record holds in every
\* field the value of that run's response, or the field's empty default.
FeedbackUpsert ==
    [][/\ \A a \in DOMAIN attempts : Cardinality(RecordsOf(feedback', a)) <= 1
       /\ \A w \in Workers :
             (Answered(w) /\ workers[w].response # None /\ workers'[w] = Idle) =>
                 \A i \in RecordsOf(feedback', workers[w].arg) :
                     feedback'[i].fields = ExpectedFields(workers[w].response[1])]_vars

\* The job of attempt 1 was executed twice and both runs have ended, the one
\* that wrote last answered with the quest summary only: there is one record,
\* and its other fields are empty.
FeedbackReplacedByPartial ==
    /\ \A w \in Workers : workers[w] = Idle
    /\ CopiesIn(Job(FeedbackTask, 1), redeliveries) = 1
    /\ Job(FeedbackTask, 1) \notin queue
    /\ Cardinality(RecordsOf(feedback, 1)) = 1
    /\ \A i \in RecordsOf(feedback, 1) :
          /\ feedback[i].fields["quest_summary"] = "other"
          /\ feedback[i].fields["study_tips"] = "[]"
          /\ feedback[i].fields["recommendations"] = ""

\* ------------------------------------------------ the scoring transaction: properties
\* The step is a save() by a client: no job is taken from the queue or
\* redelivered, and no worker moves.
ClientSaveStep == ClientSave /\ workers' = workers

\* C24: a stored submitted field goes from True to False in no step of a job
\* (scoring, badge, feedback, profile) and in no dispatch of save(): it does
\* only where a caller of save() set the field to False itself.
SubmittedOneWay ==
    [][\A a \in DOMAIN attempts :
          (attempts[a].submitted /\ ~attempts'[a].submitted) => ClientSaveStep]_vars

\* A scoring job is about to commit its save() of an instance it loaded while
\* submitted was False, and the stored row has submitted True by now.
StaleInstanceSaved ==
    \E w \in Workers :
        /\ workers[w].task = ScoreTask
        /\ workers[w].pc = "commit"
        /\ ~workers[w].instance.submitted
        /\ attempts[workers[w].arg].submitted

\* No execution of the job is under way or outstanding.
JobSettled(job) ==
    /\ job \notin queue
    /\ \A w \in Workers : ~(workers[w].task = job.task /\ workers[w].arg = job.arg)

\* C25 (as claimed): once the scoring jobs of the student's two submitted
\* attempts at the quest have each been executed once, in whatever
\* interleaving, the student's total_points have grown by the larger of the
\* two scores.
ConcurrentBestComparison ==
    (/\ \A a \in AttemptIds :
           /\ JobSettled(Job(ScoreTask, a))
           /\ CopiesIn(Job(ScoreTask, a), redeliveries) = 0)
        => total_points["s1"] = Max(attempts[1].total_score_achieved,
                                    attempts[2].total_score_achieved)

\* C26 (as claimed): once the scoring job of a submitted attempt on a
\* non-private quest has stored a total equal to the quest's nonzero maximum
\* and the Perfectionist job it dispatched has been executed, the attempt
\* holds a Perfectionist badge, wherever the badge job ran relative to the
\* commit of the scoring transaction.
PerfectionistAfterScoring ==
    \A a \in DOMAIN attempts :
        (/\ attempts[a].submitted
         /\ QuestType(attempts[a].quest) # "Private"
         /\ TotalMaxScore(attempts[a].quest) # 0
         /\ attempts[a].total_score_achieved = TotalMaxScore(attempts[a].quest)
         /\ JobSettled(Job(ScoreTask, a))
         /\ JobSettled(Job(PerfectionistTask, a)))
            => quest_badges[<<"Perfectionist", a>>] >= 1

\* ------------------------------------------------ Cognitive Profile Aggregator: overwrite
\* The profile of s as the tables alone determine it: per level and per topic
\* the answer rows of the submitted attempts of s are counted.
AccuracyFromHistory(s, column, v) ==
    (RowsCounted(s, column, v, TRUE) * 100 * PercentUnit)
        \div Max(RowsCounted(s, column, v, FALSE), 1)
ProfileFromHistory(s) ==
    LET levels == {"Remember", "Understand", "Apply", "Analyze", "Evaluate", "Create"}
        accuracy == [level \in levels |->
                        AccuracyFromHistory(s, "cognitive_level", Some(level))]
        weak == {t \in TopicValues :
                    /\ RowsCounted(s, "topic", t, FALSE) >= 1
                    /\ AccuracyFromHistory(s, "topic", t) < 60 * PercentUnit}
        total == SumOver(accuracy, levels)
    IN  [accuracy |-> accuracy,
         weak_topics |-> [t \in weak |-> AccuracyFromHistory(s, "topic", t)],
         competency_level |-> IF total >= 6 * 80 * PercentUnit THEN "Advanced"
                              ELSE IF total >= 6 * 60 * PercentUnit THEN "Intermediate"
                              ELSE "Beginner",
         recommend_difficulty |-> IF total >= 6 * 80 * PercentUnit THEN 8
                                  ELSE IF total >= 6 * 60 * PercentUnit THEN 5
                                  ELSE 3]

\* C27: the profile an execution of update_cognitive_profile stores for s is
\* the one the student's submitted attempts and their answer rows determine,
\* whatever the profile held before; an execution on an unchanged history
\* therefore stores the same accuracies, weak_topics, competency_level and
\* recommend_difficulty again.
ProfileFullOverwrite ==
    [][\A s \in Students :
          Executed(Job(ProfileTask, user_id[s])) =>
              /\ profiles'[s] = Some(ProfileFromHistory(s))
              /\ profiles[s] = Some(ProfileFromHistory(s)) => profiles'[s] = profiles[s]]_vars

\* The job was executed twice for s1 and the second attempt was handed in
\* before the last execution: the stored profile is that of the five rows, with
\* a weak topic, and not that of the three rows of the first attempt.
ProfileRecomputedTwice ==
    /\ Job(ProfileTask, 1) \notin queue
    /\ CopiesIn(Job(ProfileTask, 1), redeliveries) = 1
    /\ attempts[2].submitted
    /\ Len(answer_attempts[1]) = 3 /\ Len(answer_attempts[2]) = 2
    /\ profiles["s1"] = Some(ProfileFromHistory("s1"))
    /\ profiles["s1"][1].weak_topics # <<>>
    /\ \E level \in Levels : profiles["s1"][1].accuracy[level] \notin {0, 100 * PercentUnit}

\* C28 (as claimed): after an execution of update_cognitive_profile for a
\* student whose answers to questions without a topic are less than 60%
\* correct, the weak_topics map of the profile has the key 'General'.
TopicDefaultGeneral ==
    [][\A s \in Students :
          (/\ Executed(Job(ProfileTask, user_id[s]))
           /\ RowsCounted(s, "topic", None, FALSE) >= 1
           /\ RowsCounted(s, "topic", None, TRUE) * 100
                 < 60 * RowsCounted(s, "topic", None, FALSE))
              => Some("General") \in DOMAIN profiles'[s][1].weak_topics]_vars

\* ------------------------------------------------ jobs given rows that do not exist
\* A job may be given the id of an attempt or a quest that is not stored, and the
\* Badge row it looks up by name may be missing.  The job ends by returning a
\* message, or with the exception none of its except clauses names.

\* The except clauses of each job.
ExceptionsCaught(task) ==
    CASE task = ScoreTask -> {"UserQuestAttempt.DoesNotExist", "Exception"}
      [] task = FirstAttemptTask -> {"UserQuestAttempt.DoesNotExist", "Badge.DoesNotExist"}
      [] task = PerfectionistTask -> {"UserQuestAttempt.DoesNotExist", "Badge.DoesNotExist",
                                      "Quest.DoesNotExist"}
      [] task = SpeedsterTask -> {"Quest.DoesNotExist"}
      [] task = ExpertTask -> {"Quest.DoesNotExist", "Badge.DoesNotExist"}
      [] task = CompletionistTask -> {"UserCourseGroupEnrollment.DoesNotExist"}

\* How the job ends when its body raised the exception, or none.
Outcome(task, exception) ==
    IF \/ exception = None
       \/ exception[1] \in ExceptionsCaught(task)
       \/ "Exception" \in ExceptionsCaught(task)
    THEN "returned" ELSE "raised"

\* UserQuestAttempt.objects.get(id=...), Quest.objects.get(id=...) and
\* Badge.objects.get(name=...): the exception raised, or None.
GetAttempt(a) == IF a \in DOMAIN attempts THEN None ELSE Some("UserQuestAttempt.DoesNotExist")
GetQuest(q) == IF q \in DOMAIN quest_type THEN None ELSE Some("Quest.DoesNotExist")
GetBadge(name) == IF name \in badge_table THEN None ELSE Some("Badge.DoesNotExist")

\* A worker executes the job to its end; the worker keeps how it ended.
JobEnds(w, job, ack, dispatched, exception) ==
    /\ workers[w].pc \in {"idle", "ended"}
    /\ JobDone(job, ack, dispatched)
    /\ workers' = [workers EXCEPT ![w] =
                      [task |-> job.task, arg |-> job.arg, pc |-> "ended",
                       exception |-> exception,
                       outcome |-> Outcome(job.task, exception)]]

\* calculate_score_and_issue_points(a).
ExecuteScoringJob(w, a, ack, order) ==
    LET exception == GetAttempt(a)
    IN  /\ JobEnds(w, Job(ScoreTask, a), ack,
                   IF exception = None THEN {Job(PerfectionistTask, a)} ELSE {}, exception)
        /\ IF exception = None
           THEN LET instance == attempts[a]
                    r == CalculateTotalScoreAchieved(questions[instance.quest],
                                                     answer_attempts[a], order)
                    saved == [attempts EXCEPT ![a].total_score_achieved = r.total_score]
                    highest_score_achieved == HighestScoreAchieved(saved, a)
                IN  /\ order \in RowOrders(Len(answer_attempts[a]))
                    /\ attempts' = saved
                    /\ answer_attempts' = [answer_attempts EXCEPT ![a] = r.rows]
                    /\ total_points' =
                         IF IssuesPoints(r.total_score, highest_score_achieved,
                                         instance.quest)
                         THEN [total_points EXCEPT ![instance.student] =
                                 @ + PointsToAdd(r.total_score, highest_score_achieved)]
                         ELSE total_points
           ELSE /\ order = <<>>
                /\ UNCHANGED <<attempts, answer_attempts, total_points>>
        /\ UNCHANGED <<catalogue, expiration_date, feedbackVars, scoreVars, quest_status, course_status,
                       completed_on, quest_badges, course_badges>>

\* award_first_attempt_badge(a) and award_perfectionist_badge(a).
ExecuteAttemptBadgeJob(w, task, a, ack) ==
    LET exception == IF GetAttempt(a) # None THEN GetAttempt(a)
                     ELSE IF Eligible(task, a) THEN GetBadge(BadgeOf(task))
                     ELSE None
    IN  /\ task \in {FirstAttemptTask, PerfectionistTask}
        /\ JobEnds(w, Job(task, a), ack, {}, exception)
        /\ quest_badges' = IF exception = None /\ Eligible(task, a)
                           THEN GetOrCreate(quest_badges, <<BadgeOf(task), a>>)
                           ELSE quest_badges
        /\ UNCHANGED <<catalogue, expiration_date, feedbackVars, attempts, answer_attempts, total_points,
                       scoreVars, quest_status, course_status, completed_on,
                       course_badges>>

\* award_speedster_badge(q); fastest is the attempt min() gave, 0 when the job
\* returned before.
ExecuteSpeedsterJob(w, q, ack, fastest) ==
    LET awards == fastest # 0 /\ SpeedsterEligible(q, fastest)
        exception == IF GetQuest(q) # None THEN GetQuest(q)
                     ELSE IF awards THEN GetBadge("Speedster")
                     ELSE None
    IN  /\ GetQuest(q) # None => fastest = 0
        /\ GetQuest(q) = None =>
              IF QuestType(q) # "Private" /\ TotalMaxScore(q) # 0 /\ FastestAttempts(q) # {}
              THEN fastest \in FastestAttempts(q) ELSE fastest = 0
        /\ JobEnds(w, Job(SpeedsterTask, q), ack, {}, exception)
        /\ quest_badges' = IF exception = None /\ awards
                           THEN GetOrCreate(quest_badges, <<"Speedster", fastest>>)
                           ELSE quest_badges
        /\ UNCHANGED <<catalogue, expiration_date, feedbackVars, attempts, answer_attempts, total_points,
                       scoreVars, quest_status, course_status, completed_on,
                       course_badges>>

\* award_expert_badge(q).
ExecuteExpertJob(w, q, ack) ==
    LET exception == IF GetQuest(q) # None THEN GetQuest(q)
                     ELSE IF ExpertAttempts(q) # {} THEN GetBadge("Expert")
                     ELSE None
    IN  /\ JobEnds(w, Job(ExpertTask, q), ack, {}, exception)
        /\ quest_badges' = IF exception = None
                           THEN GetOrCreateAll(quest_badges, "Expert", ExpertAttempts(q))
                           ELSE quest_badges
        /\ UNCHANGED <<catalogue, expiration_date, feedbackVars, attempts, answer_attempts, total_points,
                       scoreVars, quest_status, course_status, completed_on,
                       course_badges>>

\* check_course_completion_and_award_completionist_badge(course_id): completed_on
\* of an enrollment is saved before the Badge row is looked up, so with the row
\* missing the first completed enrollment the query returned is marked; first is
\* that enrollment's student.
ExecuteCompletionistJob(w, ack, first) ==
    LET exception == IF CompletedEnrollments # {} THEN GetBadge("Completionist") ELSE None
    IN  /\ first \in CompletedEnrollments \/ (CompletedEnrollments = {} /\ first = "s1")
        /\ JobEnds(w, Job(CompletionistTask, "c1"), ack, {}, exception)
        /\ completed_on' =
             [s \in Students |->
                 \/ completed_on[s]
                 \/ s \in CompletedEnrollments /\ (exception = None \/ s = first)]
        /\ course_badges' = IF exception = None
                            THEN GetOrCreateAll(course_badges, "Completionist",
                                                CompletedEnrollments)
                            ELSE course_badges
        /\ UNCHANGED <<catalogue, expiration_date, feedbackVars, attempts, answer_attempts, total_points,
                       scoreVars, quest_status, course_status, quest_badges>>

\* ------------------------------------------------ specification SpecMissing
\* One expired quest of an expired course with one submitted attempt by s1, one
\* Badge row at most missing, and in the queue either the six jobs of the rows
\* there are or the jobs of an attempt and a quest there are not.
MissingJobs ==
    {{Job(ScoreTask, 1), Job(FirstAttemptTask, 1), Job(PerfectionistTask, 1),
      Job(SpeedsterTask, "q1"), Job(ExpertTask, "q1"), Job(CompletionistTask, "c1")},
     {Job(ScoreTask, 2), Job(FirstAttemptTask, 2), Job(PerfectionistTask, 2),
      Job(SpeedsterTask, "q2"), Job(ExpertTask, "q2")}}

InitMissing ==
    /\ quest_type = [q \in {"q1"} |-> "EduQuest MCQ"]
    /\ questions = [q \in {"q1"} |-> LifecycleQuestions]
    /\ badge_table \in {BadgeNames} \cup {BadgeNames \ {name} : name \in BadgeNames}
    /\ attempts = <<[student |-> "s1", quest |-> "q1", submitted |-> TRUE,
                     first_attempted_date |-> Some(0), last_attempted_date |-> Some(1),
                     total_score_achieved |-> 0]>>
    /\ answer_attempts =
         <<[k \in 1..2 |-> [question |-> 1, answer |-> k, is_selected |-> TRUE,
                            hint_used |-> FALSE, score_achieved |-> 0]]>>
    /\ total_points = [s \in Students |-> 0]
    /\ quest_status = [q \in {"q1"} |-> "Expired"]
    /\ course_status = "Expired"
    /\ completed_on = [s \in Students |-> FALSE]
    /\ quest_badges = [k \in QuestBadgeNames \X AttemptIds |-> 0]
    /\ course_badges = [k \in CourseBadgeNames \X Students |-> 0]
    /\ workers = [w \in Workers |-> Idle]
    /\ queue \in MissingJobs
    /\ redeliveries = EmptyBag
    /\ last_scored = 0
    /\ returned = None
    /\ NoFeedbackState
    /\ question_scores = << >>
    /\ expiration_date = [q \in DOMAIN quest_type |-> None]

WorkerExecutesScoringJob ==
    \E w \in Workers, a \in AttemptIds, ack \in BOOLEAN :
        \E order \in IF a \in DOMAIN attempts
                      THEN RowOrders(Len(answer_attempts[a])) ELSE {<<>>} :
            ExecuteScoringJob(w, a, ack, order)
WorkerExecutesAttemptBadgeJob ==
    \E w \in Workers, a \in AttemptIds, ack \in BOOLEAN :
        \E task \in {FirstAttemptTask, PerfectionistTask} :
            ExecuteAttemptBadgeJob(w, task, a, ack)
WorkerExecutesSpeedsterJob ==
    \E w \in Workers, q \in Quests, ack \in BOOLEAN, fastest \in {0} \cup AttemptIds :
        ExecuteSpeedsterJob(w, q, ack, fastest)
WorkerExecutesExpertJob ==
    \E w \in Workers, q \in Quests, ack \in BOOLEAN : ExecuteExpertJob(w, q, ack)
WorkerExecutesCompletionistJob ==
    \E w \in Workers, ack \in BOOLEAN, first \in Students :
        ExecuteCompletionistJob(w, ack, first)

NextMissing ==
    \/ WorkerExecutesScoringJob
    \/ WorkerExecutesAttemptBadgeJob
    \/ WorkerExecutesSpeedsterJob
    \/ WorkerExecutesExpertJob
    \/ WorkerExecutesCompletionistJob

SpecMissing == InitMissing /\ [][NextMissing]_vars

\* C29 (as claimed): a job that does not find the attempt, the quest or the
\* Badge row it looks up ends by returning a message, not with an exception,
\* and the step creates no award record.
MissingEntityHandled ==
    [][\A w \in Workers :
          (/\ workers'[w].pc = "ended"
           /\ Executed(Job(workers'[w].task, workers'[w].arg))
           /\ workers'[w].exception # None)
              => /\ workers'[w].outcome = "returned"
                 /\ quest_badges' = quest_badges
                 /\ course_badges' = course_badges]_vars

\* ------------------------------------------------ specification SpecExpiry
\* A course with two quests, of either type, and one scored attempt at the
\* first: the quests expire one by one or with the course, and the jobs the
\* two save() hooks dispatch are executed.
InitExpiry ==
    /\ quest_type \in [Quests -> QuestTypes]
    /\ questions = [q \in Quests |-> LifecycleQuestions]
    /\ attempts = <<[student |-> "s1", quest |-> "q1", submitted |-> TRUE,
                     first_attempted_date |-> Some(0), last_attempted_date |-> Some(1),
                     total_score_achieved |-> 12 * Unit]>>
    /\ answer_attempts =
         <<[k \in 1..2 |-> [question |-> 1, answer |-> k, is_selected |-> TRUE,
                            hint_used |-> FALSE, score_achieved |-> 6 * Unit]]>>
    /\ total_points = [s \in Students |-> IF s = "s1" THEN 12 * Unit ELSE 0]
    /\ quest_status = [q \in Quests |-> "Active"]
    /\ course_status = "Active"
    /\ completed_on = [s \in Students |-> FALSE]
    /\ quest_badges = [k \in QuestBadgeNames \X AttemptIds |-> 0]
    /\ course_badges = [k \in CourseBadgeNames \X Students |-> 0]
    /\ workers = [w \in Workers |-> Idle]
    /\ queue = {}
    /\ redeliveries = EmptyBag
    /\ last_scored = 0
    /\ returned = None
    /\ NoFeedbackState
    /\ question_scores = << >>
    /\ expiration_date = [q \in DOMAIN quest_type |-> None]
    /\ badge_table = BadgeNames

NextExpiry ==
    \/ QuestExpires
    \/ CourseExpires
    \/ RunSpeedsterJob
    \/ RunExpertJob
    \/ RunCompletionistJob

SpecExpiry == InitExpiry /\ [][NextExpiry]_vars

\* C30: a Course.save() that takes the stored status from Active to Expired
\* leaves every quest of the course's groups Expired, and the Expert and the
\* Speedster job of each quest that was Active are in the queue when it ends.
CourseExpiryCascades ==
    [][(course_status = "Active" /\ course_status' = "Expired") =>
          /\ \A q \in DOMAIN quest_type : quest_status'[q] = "Expired"
          /\ \A q \in DOMAIN quest_type :
                quest_status[q] = "Active" =>
                    {Job(ExpertTask, q), Job(SpeedsterTask, q)} \subseteq queue']_vars

\* The course has expired: both quests are Expired, and the Completionist job
\* and the Expert and Speedster jobs of both quests are in the queue, none of
\* them executed so far.
CourseExpiredWithQuests ==
    /\ course_status = "Expired"
    /\ \A q \in DOMAIN quest_type : quest_status[q] = "Expired"
    /\ queue = {Job(CompletionistTask, "c1")}
                  \cup {Job(t, q) : t \in {ExpertTask, SpeedsterTask}, q \in Quests}
    /\ redeliveries = EmptyBag
    /\ quest_badges = [k \in QuestBadgeNames \X AttemptIds |-> 0]

\* ------------------------------------------------ Quest.save() and Course.save()
\* The two save() methods with any status the caller stores, on creation and on
\* a stored row.  The jobs a save dispatches are counted in dispatches and put
\* on the queue.

\* previous_status / old_status_value of an instance that has no row yet (None);
\* as course_status: the course has not been created.
NoStatus == "None"
StatusValues == {"Active", "Expired"}
\* Quest.expiration_date values: NULL or a time.
DateValues == {None} \cup {Some(t) : t \in Times}

\* Mutant: the hooks dispatch whenever the saved status is Expired.
ExpiryTransitionAnySave(previous_status, status) == status = "Expired"

\* if previous_status == "Active" and self.status == "Expired"
ExpiryTransition(previous_status, status) ==
    previous_status = "Active" /\ status = "Expired"

\* The jobs Quest.save() dispatches.
QuestHookJobs(q, previous_status, status) ==
    IF ExpiryTransition(previous_status, status)
    THEN {Job(ExpertTask, q), Job(SpeedsterTask, q)}
    ELSE {}

\* The expiration date the row holds after Quest.save(): the hook stores
\* timezone.now() on the transition, with a second save of that column alone.
SavedExpirationDate(previous_status, status, date, now) ==
    IF ExpiryTransition(previous_status, status) THEN Some(now) ELSE date

\* Quest.save() of an instance that has no primary key yet.
CreateQuest(q, type, status, date, now) ==
    LET jobs == QuestHookJobs(q, NoStatus, status)
        With(f, v) == [x \in DOMAIN f \cup {q} |-> IF x = q THEN v ELSE f[x]]
    IN  /\ course_status # NoStatus
        /\ q \notin DOMAIN quest_type
        /\ quest_type' = With(quest_type, type)
        /\ questions' = With(questions, <<>>)
        /\ quest_status' = With(quest_status, status)
        /\ expiration_date' =
               With(expiration_date, SavedExpirationDate(NoStatus, status, date, now))
        /\ Dispatch(jobs)
        /\ queue' = queue \cup jobs
        /\ last_scored' = 0
        /\ UNCHANGED <<badge_table, attempts, answer_attempts, total_points, scoreVars,
                       course_status, completed_on, quest_badges, course_badges,
                       workers, redeliveries, feedback, profiles, user_id>>

\* Quest.save() of a stored quest, the instance carrying status and date.
SaveQuest(q, status, date, now) ==
    LET previous_status == quest_status[q]
        jobs == QuestHookJobs(q, previous_status, status)
    IN  /\ q \in DOMAIN quest_type
        /\ quest_status' = [quest_status EXCEPT ![q] = status]
        /\ expiration_date' =
               [expiration_date EXCEPT
                   ![q] = SavedExpirationDate(previous_status, status, date, now)]
        /\ Dispatch(jobs)
        /\ queue' = queue \cup jobs
        /\ last_scored' = 0
        /\ UNCHANGED <<catalogue, attempts, answer_attempts, total_points, scoreVars,
                       course_status, completed_on, quest_badges, course_badges,
                       workers, redeliveries, feedback, profiles, user_id>>

\* Course.save() of an instance that has no primary key yet.
CreateCourse(status) ==
    /\ course_status = NoStatus
    /\ course_status' = status
    /\ last_scored' = 0
    /\ UNCHANGED <<catalogue, expiration_date, feedbackVars, attempts, answer_attempts,
                   total_points, scoreVars, quest_status, completed_on, quest_badges,
                   course_badges, workers, queue, redeliveries>>

\* Course.save() of the stored course.  On the transition it dispatches the
\* Completionist and the Tutorial Attendance job and saves every quest of the
\* course's groups with status Expired, each through Quest.save().
SaveCourse(status, now) ==
    LET old_status_value == course_status
        expires == ExpiryTransition(old_status_value, status)
        jobs == IF expires
                THEN {Job(CompletionistTask, "c1"), Job(TutorialAttendanceTask, "c1")}
                         \cup UNION {QuestHookJobs(q, quest_status[q], "Expired") :
                                        q \in DOMAIN quest_type}
                ELSE {}
    IN  /\ course_status # NoStatus
        /\ course_status' = status
        /\ quest_status' = IF expires THEN [q \in DOMAIN quest_type |-> "Expired"]
                           ELSE quest_status
        /\ expiration_date' =
               IF expires
               THEN [q \in DOMAIN quest_type |->
                        SavedExpirationDate(quest_status[q], "Expired",
                                            expiration_date[q], now)]
               ELSE expiration_date
        /\ Dispatch(jobs)
        /\ queue' = queue \cup jobs
        /\ last_scored' = 0
        /\ UNCHANGED <<catalogue, attempts, answer_attempts, total_points, scoreVars,
                       completed_on, quest_badges, course_badges,
                       workers, redeliveries, feedback, profiles, user_id>>

\* ------------------------------------------------ specification SpecTrigger
\* Nothing is stored at first: the course is created, quests are created in it
\* with either status, and course and quests are saved again with either
\* status any number of times.
TriggerTypes == {"EduQuest MCQ"}

InitTrigger ==
    /\ quest_type = [q \in {} |-> "EduQuest MCQ"]
    /\ questions = [q \in {} |-> <<>>]
    /\ attempts = <<>>
    /\ answer_attempts = <<>>
    /\ total_points = [s \in Students |-> 0]
    /\ quest_status = [q \in {} |-> "Active"]
    /\ course_status = NoStatus
    /\ completed_on = [s \in Students |-> FALSE]
    /\ quest_badges = [k \in QuestBadgeNames \X AttemptIds |-> 0]
    /\ course_badges = [k \in CourseBadgeNames \X Students |-> 0]
    /\ workers = [w \in Workers |-> Idle]
    /\ queue = {}
    /\ redeliveries = EmptyBag
    /\ last_scored = 0
    /\ returned = None
    /\ NoFeedbackState
    /\ question_scores = << >>
    /\ expiration_date = [q \in DOMAIN quest_type |-> None]
    /\ badge_table = BadgeNames

TeacherCreatesCourse == \E status \in StatusValues : CreateCourse(status)
TeacherCreatesQuest ==
    \E q \in Quests, type \in TriggerTypes, status \in StatusValues,
       date \in DateValues, now \in Times :
        CreateQuest(q, type, status, date, now)
TeacherSavesQuest ==
    \E q \in Quests, status \in StatusValues, date \in DateValues, now \in Times :
        SaveQuest(q, status, date, now)
TeacherSavesCourse ==
    \E status \in StatusValues, now \in Times : SaveCourse(status, now)

NextTrigger ==
    \/ TeacherCreatesCourse
    \/ TeacherCreatesQuest
    \/ TeacherSavesQuest
    \/ TeacherSavesCourse

SpecTrigger == InitTrigger /\ [][NextTrigger]_vars

\* The copies of a job a step adds to the jobs dispatched.
DispatchedInStep(job) == CopiesIn(job, dispatches') - CopiesIn(job, dispatches)

\* C31: a step dispatches the Expert and the Speedster job of a quest once when
\* it takes the quest's stored status from Active to Expired and not at all
\* otherwise (creation, Expired to Expired, any other save), and the
\* Completionist and the Tutorial Attendance job once when it takes the
\* course's stored status from Active to Expired and not at all otherwise.
ExpiryTriggersOncePerTransition ==
    [][/\ \A q \in DOMAIN quest_type' : \A t \in {ExpertTask, SpeedsterTask} :
            DispatchedInStep(Job(t, q)) =
                IF /\ q \in DOMAIN quest_type
                   /\ quest_status[q] = "Active"
                   /\ quest_status'[q] = "Expired"
                THEN 1 ELSE 0
       /\ \A t \in {CompletionistTask, TutorialAttendanceTask} :
            DispatchedInStep(Job(t, "c1")) =
                IF course_status = "Active" /\ course_status' = "Expired"
                THEN 1 ELSE 0]_vars

\* Both quests are stored as Expired under an Active course: the jobs of q1
\* have been dispatched twice, those of q2 and of the course never.
ExpiredWithAndWithoutTrigger ==
    /\ course_status = "Active"
    /\ DOMAIN quest_type = Quests
    /\ \A q \in Quests : quest_status[q] = "Expired"
    /\ \A t \in {ExpertTask, SpeedsterTask} :
          /\ CopiesIn(Job(t, "q1"), dispatches) = 2
          /\ CopiesIn(Job(t, "q2"), dispatches) = 0
    /\ \A t \in {CompletionistTask, TutorialAttendanceTask} :
          CopiesIn(Job(t, "c1"), dispatches) = 0

\* ------------------------------------------------ the scoring job failing in its block
\* A statement of the with transaction.atomic() block raises: the block is left
\* with the exception, the transaction is rolled back, and the job's
\* except Exception clause returns the error message.

\* The statements of the block, by the position of the worker that is about
\* to execute them: the score computation and save, the prior-best lookup,
\* the points save.
BlockStatements == {"save", "highest", "commit"}

\* Mutant: no transaction; every statement's write is stored when it is made.
StoredAfterAutocommit(w) ==
    LET written == workers[w].pc \in {"highest", "commit"}
    IN  [attempts |-> IF written THEN VisibleAttempts(w) ELSE attempts,
         answer_attempts |-> IF written
                             THEN [answer_attempts EXCEPT ![workers[w].arg] = workers[w].rows]
                             ELSE answer_attempts,
         total_points |-> total_points]

\* The tables after the block was left with an exception: what the transaction
\* wrote is discarded.
StoredAfterException(w) ==
    [attempts |-> attempts, answer_attempts |-> answer_attempts,
     total_points |-> total_points]

\* The statement the worker is about to execute raises.
ScoreWorkerRaises(w) ==
    LET stored == StoredAfterException(w)
    IN  /\ workers[w].task = ScoreTask
        /\ workers[w].pc \in BlockStatements
        /\ attempts' = stored.attempts
        /\ answer_attempts' = stored.answer_attempts
        /\ total_points' = stored.total_points
        /\ workers' = [workers EXCEPT ![w] =
                          [task |-> ScoreTask, arg |-> workers[w].arg, pc |-> "ended",
                           raised_at |-> workers[w].pc,
                           instance |-> workers[w].instance,
                           exception |-> Some("Exception"),
                           outcome |-> Outcome(ScoreTask, Some("Exception"))]]
        /\ last_scored' = 0
        /\ UNCHANGED <<catalogue, expiration_date, feedbackVars, queue, redeliveries, scoreVars,
                       quest_status, course_status, completed_on, quest_badges,
                       course_badges>>

\* ------------------------------------------------ specification SpecAtomic
\* SpecTxn with scoring jobs that may fail at any statement of their block.
ScoreWorkerFails == \E w \in Workers : ScoreWorkerRaises(w)

NextAtomic ==
    \/ ScoreWorkerStarts
    \/ ScoreWorkerSavesScore
    \/ ScoreWorkerReadsPriorBest
    \/ ScoreWorkerLeavesBlock
    \/ ScoreWorkerFails
    \/ WorkerStarts
    \/ WorkerChecksConditions
    \/ WorkerLooksUpBadge
    \/ WorkerCreatesBadge

SpecAtomic == InitTxn /\ [][NextAtomic]_vars

\* The worker is inside the block of a scoring job.
InBlock(w) == workers[w].task = ScoreTask /\ workers[w].pc \in BlockStatements

\* C32: no step of a scoring job inside its block other than leaving the block
\* normally changes the attempt's total_score_achieved, a score_achieved of
\* its answer attempts or any total_points, and a job that fails inside the
\* block ends by returning a message: the stored values are those from before
\* the job.
ScoreAllOrNothing ==
    [][\A w \in Workers :
          (/\ InBlock(w)
           /\ workers'[w] # workers[w]
           /\ workers'[w] # Idle)
              => /\ attempts' = attempts
                 /\ answer_attempts' = answer_attempts
                 /\ total_points' = total_points
                 /\ workers'[w].pc = "ended" => workers'[w].outcome = "returned"]_vars

\* A scoring job failed at the points save, after it had computed a positive
\* score for its attempt, and no score and no points are stored.
FailedAtPointsSave ==
    \E w \in Workers :
        /\ workers[w].pc = "ended"
        /\ workers[w].raised_at = "commit"
        /\ workers[w].instance.total_score_achieved > 0
        /\ \A a \in DOMAIN attempts :
              /\ attempts[a].total_score_achieved = 0
              /\ \A k \in DOMAIN answer_attempts[a] : answer_attempts[a][k].score_achieved = 0
        /\ \A s \in Students : total_points[s] = 0

\* ------------------------------------------------ the profile job, read then write
\* update_cognitive_profile as one of several workers executes it: the queries
\* that read the student's history and the profile.save() that stores the
\* aggregate are separate statements, with no transaction and no lock.

\* The student whose EduquestUser.id is student_id, if there is one.
StudentsWithId(student_id) == {s \in Students : user_id[s] = student_id}

\* EduquestUser.objects.get(id=student_id) finds no row: the exception is
\* caught and the job ends.
ProfileWorkerFindsNoStudent(job, ack) ==
    /\ job.task = ProfileTask
    /\ StudentsWithId(job.arg) = {}
    /\ CanDeliver(job, ack)
    /\ queue' = Delivered(job, ack)
    /\ redeliveries' = Counted(job, ack)
    /\ last_scored' = 0
    /\ UNCHANGED <<catalogue, expiration_date, feedbackVars, attempts, answer_attempts,
                   total_points, scoreVars, badgeVars>>

\* The student is loaded, the submitted attempts and their answers are read and
\* the accuracies, weak topics and competency are computed.
ProfileWorkerReads(w, job, ack) ==
    /\ workers[w] = Idle
    /\ job.task = ProfileTask
    /\ CanDeliver(job, ack)
    /\ \E s \in StudentsWithId(job.arg) :
          workers' = [workers EXCEPT ![w] =
                         [task |-> ProfileTask, arg |-> job.arg, pc |-> "save",
                          student |-> s, profile |-> CognitiveProfile(s)]]
    /\ queue' = Delivered(job, ack)
    /\ redeliveries' = Counted(job, ack)
    /\ last_scored' = 0
    /\ UNCHANGED <<catalogue, expiration_date, feedbackVars, attempts, answer_attempts,
                   total_points, scoreVars, quest_status, course_status, completed_on,
                   quest_badges, course_badges>>

\* profile.save()
ProfileWorkerSaves(w) ==
    /\ workers[w].task = ProfileTask
    /\ workers[w].pc = "save"
    /\ profiles' = [profiles EXCEPT ![workers[w].student] = Some(workers[w].profile)]
    /\ workers' = [workers EXCEPT ![w] = Idle]
    /\ last_scored' = 0
    /\ UNCHANGED <<catalogue, expiration_date, attempts, answer_attempts, total_points,
                   scoreVars, quest_status, course_status, completed_on, quest_badges,
                   course_badges, queue, redeliveries, dispatches, feedback, user_id>>

\* ------------------------------------------------ specification SpecAggregate
\* s1 (user id 1) has handed in attempt 1 and the profile job of that save is
\* in the queue; s1's attempt 2 and s2's attempt 3 are in progress and handed
\* in later.  Two workers execute the profile jobs.
AggregateQuestions ==
    <<[max_score |-> 12 * Unit, answers |-> <<TRUE, TRUE>>,
       cognitive_level |-> Some("Analyze"), topic |-> Some("Python")],
      [max_score |-> 12 * Unit, answers |-> <<TRUE, TRUE>>,
       cognitive_level |-> Some("Apply"), topic |-> Some("SQL")]>>

InitAggregate ==
    /\ quest_type = [q \in {"q1"} |-> "EduQuest MCQ"]
    /\ questions = [q \in {"q1"} |-> AggregateQuestions]
    /\ attempts = <<ProfileAttempt("s1", TRUE), ProfileAttempt("s1", FALSE),
                    ProfileAttempt("s2", FALSE)>>
    /\ answer_attempts = <<AnswerRows(<<<<1, TRUE>>>>),
                           AnswerRows(<<<<1, FALSE>>, <<2, TRUE>>>>),
                           AnswerRows(<<<<2, FALSE>>>>)>>
    /\ total_points = [s \in Students |-> 0]
    /\ NoBadgeState
    /\ queue = {Job(ProfileTask, 1)}
    /\ redeliveries = EmptyBag
    /\ last_scored = 0
    /\ returned = None
    /\ question_scores = <<>>
    /\ expiration_date = [q \in DOMAIN quest_type |-> None]
    /\ badge_table = BadgeNames
    /\ NoFeedbackState

ProfileJobs == {job \in queue : job.task = ProfileTask}

ProfileWorkerStarts ==
    \E w \in Workers, job \in ProfileJobs, ack \in BOOLEAN : ProfileWorkerReads(w, job, ack)
ProfileWorkerStoresProfile == \E w \in Workers : ProfileWorkerSaves(w)
ProfileWorkerGivesUp ==
    \E job \in ProfileJobs, ack \in BOOLEAN : ProfileWorkerFindsNoStudent(job, ack)

NextAggregate ==
    \/ StudentSubmitsLater
    \/ ProfileWorkerStarts
    \/ ProfileWorkerStoresProfile
    \/ ProfileWorkerGivesUp

SpecAggregate == InitAggregate /\ [][NextAggregate]_vars

\* Every profile job dispatched so far has completed.
ProfileJobsCompleted ==
    /\ ProfileJobs = {}
    /\ \A w \in Workers : workers[w] = Idle

\* C33: whenever every update_cognitive_profile job the submissions so far
\* triggered has completed, the stored profile of every student who has
\* handed in an attempt is the aggregate of that student's submitted attempts.
ProfileEventuallyConsistent ==
    ProfileJobsCompleted =>
        \A a \in DOMAIN attempts :
            attempts[a].submitted =>
                profiles[attempts[a].student] = Some(CognitiveProfile(attempts[a].student))

\* ------------------------------------------------ specification SpecSum
\* One student has handed in an attempt at each of two quests, the second quest
\* of either type; two workers execute the two scoring jobs statement by
\* statement.
InitSum ==
    /\ \E type \in QuestTypes :
          quest_type = [q \in Quests |-> IF q = "q1" THEN "EduQuest MCQ" ELSE type]
    /\ questions = [q \in Quests |-> SaveQuestions]
    /\ \E sel \in [AttemptIds -> TxnSelections] :
          /\ attempts = [a \in AttemptIds |->
                            [TxnAttempt(sel[a], TRUE).row EXCEPT
                                !.quest = IF a = 1 THEN "q1" ELSE "q2"]]
          /\ answer_attempts = [a \in AttemptIds |-> TxnAttempt(sel[a], TRUE).answers]
    /\ total_points = [s \in Students |-> 0]
    /\ NoBadgeState
    /\ queue = UNION {SaveDispatches(a, Some(FALSE), TRUE) : a \in AttemptIds}
    /\ redeliveries = EmptyBag
    /\ last_scored = 0
    /\ returned = None
    /\ question_scores = <<>>
    /\ expiration_date = [q \in DOMAIN quest_type |-> None]
    /\ badge_table = BadgeNames
    /\ dispatches = SetToBag(queue)
    /\ feedback = <<>>
    /\ profiles = [s \in Students |-> None]
    /\ user_id = [s \in Students |-> IF s = "s1" THEN 1 ELSE 2]

NextSum ==
    \/ ScoreWorkerStarts
    \/ ScoreWorkerSavesScore
    \/ ScoreWorkerReadsPriorBest
    \/ ScoreWorkerLeavesBlock

SpecSum == InitSum /\ [][NextSum]_vars

\* The scoring job of every submitted attempt has run, once each.
EveryAttemptScoredOnce ==
    /\ \A a \in DOMAIN attempts :
          attempts[a].submitted => Job(ScoreTask, a) \notin queue
    /\ redeliveries = EmptyBag
    /\ \A w \in Workers : workers[w] = Idle

\* C34: once the scoring job of every submitted attempt has run exactly once,
\* each student's total_points (0 at first) is the sum over the quests that
\* are not Private of the student's best total_score_achieved at the quest.
LedgerIsSumOfBests ==
    EveryAttemptScoredOnce =>
        \A s \in Students : total_points[s] = SumOfBestScores(s, NonPrivateQuests)

\* ------------------------------------------------ Score Calculator: the rows and the total
\* The sum of score_achieved over the attempt's rows of the given questions.
RowScoreSum(qis) ==
    SeqSum([i \in DOMAIN ScoredRows |->
               IF ScoredRows[i].question \in qis THEN ScoredRows[i].score_achieved ELSE 0])

\* C35: after calculate_total_score_achieved, the score_achieved values of the
\* rows of each question add up to the question_score that went into the
\* total, with the hint penalty and without it, and those of all the rows of
\* the quest's questions add up to the returned total.
RowScoresAddUp ==
    returned # None =>
        /\ \A qi \in DOMAIN ScoredQuestions : RowScoreSum({qi}) = question_scores[qi]
        /\ Some(RowScoreSum(DOMAIN ScoredQuestions)) = returned

\* A question of max score 10 with two correct options, both selected with a
\* hint: the subtotal is 10 - 5 = 5, one row keeps its 5 and the other 0.
PenaltySplitOverRows ==
    /\ returned = Some(5 * Unit)
    /\ ScoredQuestions[1] = [max_score |-> 10 * Unit, answers |-> <<TRUE, TRUE>>]
    /\ Len(ScoredRows) = 2
    /\ \A i \in DOMAIN ScoredRows :
          /\ ScoredRows[i].question = 1
          /\ ScoredRows[i].is_selected
          /\ ScoredRows[i].hint_used
    /\ ScoredRows[1].answer # ScoredRows[2].answer
    /\ {ScoredRows[1].score_achieved, ScoredRows[2].score_achieved} = {0, 5 * Unit}

\* C36: after calculate_total_score_achieved, the returned total is between 0
\* and the quest's total_max_score(), and every question_score is at most the
\* question's max_score, whatever rows the attempt has (several rows for one
\* Answer included).
ScoreUpperBound ==
    returned # None =>
        /\ returned[1] >= 0
        /\ returned[1] <= TotalMaxScore("q1")
        /\ \A qi \in DOMAIN ScoredQuestions :
              question_scores[qi] <= ScoredQuestions[qi].max_score

\* ------------------------------------------------ specification SpecCascade
\* One attempt has just been saved with submitted going from False to True and
\* the four jobs of that save are in the queue; the workers execute whatever is
\* queued, the jobs those jobs dispatch included, and keep doing so as long as
\* a job is queued (weak fairness of the workers' steps).
InitCascade ==
    /\ quest_type = [q \in {"q1"} |-> "EduQuest MCQ"]
    /\ questions = [q \in {"q1"} |-> SaveQuestions]
    /\ \E sel \in TxnSelections :
          /\ attempts = <<TxnAttempt(sel, TRUE).row>>
          /\ answer_attempts = <<TxnAttempt(sel, TRUE).answers>>
    /\ total_points = [s \in Students |-> 0]
    /\ NoBadgeState
    /\ queue = SaveDispatches(1, Some(FALSE), TRUE)
    /\ redeliveries = EmptyBag
    /\ last_scored = 0
    /\ returned = None
    /\ question_scores = <<>>
    /\ expiration_date = [q \in DOMAIN quest_type |-> None]
    /\ badge_table = BadgeNames
    /\ dispatches = SetToBag(queue)
    /\ feedback = <<>>
    /\ profiles = [s \in Students |-> None]
    /\ user_id = [s \in Students |-> IF s = "s1" THEN 1 ELSE 2]

NextCascade ==
    \/ RunScoringJobAndSave
    \/ RunFirstAttemptJob
    \/ RunPerfectionistJob
    \/ RunFeedbackJob
    \/ RunProfileJob

SpecCascade == InitCascade /\ [][NextCascade]_vars /\ WF_vars(NextCascade)

\* C37: from one False-to-True save on, no job that is executed and
\* acknowledged is in the queue afterwards or is dispatched by its own
\* execution, the save hook dispatches no more than the four jobs of the
\* save and one job for each execution of the scoring job, and with workers
\* that keep executing queued jobs the queue is empty from some state on.
CascadeTerminates ==
    /\ [][\A job \in queue :
             (Executed(job) /\ redeliveries' = redeliveries)
                 => (job \notin queue' /\ DispatchedInStep(job) = 0)]_vars
    /\ [](BagCardinality(dispatches) <= 4 + 1 + MaxRedeliveries)
    /\ <>[](queue = {})

\* The cascade has ended after the scoring job ran twice: nothing is queued,
\* the attempt is scored, and the hook has dispatched the feedback job three
\* times, once at the submission and once in each run of the scoring job.
CascadeEnded ==
    /\ queue = {}
    /\ BagCardinality(redeliveries) = 1
    /\ CopiesIn(Job(ScoreTask, 1), redeliveries) = 1
    /\ attempts[1].total_score_achieved > 0
    /\ CopiesIn(Job(FeedbackTask, 1), dispatches) = 3
    /\ CopiesIn(Job(ScoreTask, 1), dispatches) = 1

\* ------------------------------------------------ specification SpecReexpiry
\* A quest with the scored attempt of s1, which took 2 ms, and the attempt of
\* s2, which took 1 ms and whose scoring job is still queued.  The quest is
\* saved with either status any number of times, and the jobs are executed.
InitReexpiry ==
    /\ quest_type = [q \in {"q1"} |-> "EduQuest MCQ"]
    /\ questions = [q \in {"q1"} |-> LifecycleQuestions]
    /\ attempts = <<[student |-> "s1", quest |-> "q1", submitted |-> TRUE,
                     first_attempted_date |-> Some(0), last_attempted_date |-> Some(2),
                     total_score_achieved |-> 12 * Unit],
                    [student |-> "s2", quest |-> "q1", submitted |-> TRUE,
                     first_attempted_date |-> Some(0), last_attempted_date |-> Some(1),
                     total_score_achieved |-> 0]>>
    /\ answer_attempts =
         [a \in 1..2 |->
             [k \in 1..2 |-> [question |-> 1, answer |-> k, is_selected |-> TRUE,
                              hint_used |-> FALSE,
                              score_achieved |-> IF a = 1 THEN 6 * Unit ELSE 0]]]
    /\ total_points = [s \in Students |-> IF s = "s1" THEN 12 * Unit ELSE 0]
    /\ NoBadgeState
    /\ queue = {Job(ScoreTask, 2)}
    /\ redeliveries = EmptyBag
    /\ last_scored = 0
    /\ returned = None
    /\ NoFeedbackState
    /\ question_scores = << >>
    /\ expiration_date = [q \in DOMAIN quest_type |-> None]
    /\ badge_table = BadgeNames

NextReexpiry ==
    \/ TeacherSavesQuest
    \/ RunScoringJob
    \/ RunSpeedsterJob
    \/ RunExpertJob

SpecReexpiry == InitReexpiry /\ [][NextReexpiry]_vars

\* The attempts at the quest that hold the Speedster badge.
SpeedsterHolders(q) ==
    {a \in DOMAIN attempts :
        attempts[a].quest = q /\ quest_badges[<<"Speedster", a>>] > 0}

\* C38: in every reachable state at most one attempt at a quest holds the
\* Speedster badge.
AtMostOneSpeedster ==
    \A q \in DOMAIN quest_type : Cardinality(SpeedsterHolders(q)) <= 1

\* C39: while the course group has no quest that is not Private, no enrollment
\* holds the Completionist badge and no completed_on is set, whatever attempts
\* the students have and however often the job is executed.
CompletionistNeedsRequiredQuest ==
    NonPrivateQuests = {} =>
        \A s \in Students :
            /\ course_badges[<<"Completionist", s>>] = 0
            /\ ~completed_on[s]

\* A group of Private quests only, at each of which s1 has a submitted attempt:
\* the Completionist job was executed twice (once without acknowledgement) and
\* nothing was awarded.
CompletionistSkippedPrivateGroup ==
    /\ NonPrivateQuests = {}
    /\ queue = {}
    /\ CopiesIn(Job(CompletionistTask, "c1"), redeliveries) = 1
    /\ \A q \in DOMAIN quest_type :
          \E a \in DOMAIN attempts :
              attempts[a].student = "s1" /\ attempts[a].quest = q /\ attempts[a].submitted
    /\ \A s \in Students : course_badges[<<"Completionist", s>>] = 0 /\ ~completed_on[s]

\* ------------------------------------------------ check_expired_quest (tasks.py)
\* Quest.objects.filter(expiration_date__lt=now, status='Active'): a NULL date
\* is not less than any time.
ExpiredQuests(now) ==
    {q \in DOMAIN quest_type :
        /\ quest_status[q] = "Active"
        /\ expiration_date[q] # None
        /\ expiration_date[q][1] < now}

\* Mutant: the job sets the status with a queryset update(), which does not go
\* through Quest.save().
CheckExpiredQuestByUpdate(now) ==
    /\ quest_status' = [q \in DOMAIN quest_type |->
                           IF q \in ExpiredQuests(now) THEN "Expired" ELSE quest_status[q]]
    /\ last_scored' = 0
    /\ UNCHANGED <<catalogue, expiration_date, feedbackVars, attempts, answer_attempts,
                   total_points, scoreVars, course_status, completed_on, quest_badges,
                   course_badges, workers, queue, redeliveries>>

\* The periodic job, run at time now: every quest the filter returns is saved
\* with status Expired through Quest.save().
CheckExpiredQuest(now) ==
    LET expired_quests == ExpiredQuests(now)
        jobs == UNION {QuestHookJobs(q, quest_status[q], "Expired") : q \in expired_quests}
    IN  /\ quest_status' = [q \in DOMAIN quest_type |->
                               IF q \in expired_quests THEN "Expired" ELSE quest_status[q]]
        /\ expiration_date' =
               [q \in DOMAIN quest_type |->
                   IF q \in expired_quests
                   THEN SavedExpirationDate(quest_status[q], "Expired",
                                            expiration_date[q], now)
                   ELSE expiration_date[q]]
        /\ Dispatch(jobs)
        /\ queue' = queue \cup jobs
        /\ last_scored' = 0
        /\ UNCHANGED <<catalogue, attempts, answer_attempts, total_points, scoreVars,
                       course_status, completed_on, quest_badges, course_badges,
                       workers, redeliveries, feedback, profiles, user_id>>

\* ------------------------------------------------ specification SpecPeriodic
\* Two Active quests with any expiration dates.  The teacher saves a quest as
\* Active with another date (re-activating it when it had expired), and the
\* periodic job runs at any time; only the job makes a quest Expired.
InitPeriodic ==
    /\ quest_type = [q \in Quests |-> "EduQuest MCQ"]
    /\ questions = [q \in Quests |-> LifecycleQuestions]
    /\ attempts = <<>>
    /\ answer_attempts = <<>>
    /\ total_points = [s \in Students |-> 0]
    /\ NoBadgeState
    /\ queue = {}
    /\ redeliveries = EmptyBag
    /\ last_scored = 0
    /\ returned = None
    /\ NoFeedbackState
    /\ question_scores = << >>
    /\ expiration_date \in [Quests -> DateValues]
    /\ badge_table = BadgeNames

TeacherReschedulesQuest ==
    \E q \in Quests, date \in DateValues, now \in Times : SaveQuest(q, "Active", date, now)
PeriodicExpiryCheck == \E now \in Times : CheckExpiredQuest(now)

NextPeriodic == TeacherReschedulesQuest \/ PeriodicExpiryCheck

SpecPeriodic == InitPeriodic /\ [][NextPeriodic]_vars

\* C40: a run of check_expired_quest at time now leaves every quest that was
\* Active with an expiration date before now Expired, with the Expert and the
\* Speedster job of the quest dispatched once each; it leaves status and date
\* of every other quest as they were and dispatches none of their jobs; and
\* after it no quest is Active with a date before now, so that a second run
\* at that time finds nothing to do.
PeriodicCheckExpiresDueQuests ==
    [][\A now \in Times :
          CheckExpiredQuest(now) =>
              /\ \A q \in DOMAIN quest_type : \A t \in {ExpertTask, SpeedsterTask} :
                    IF q \in ExpiredQuests(now)
                    THEN /\ quest_status'[q] = "Expired"
                         /\ DispatchedInStep(Job(t, q)) = 1
                    ELSE /\ quest_status'[q] = quest_status[q]
                         /\ expiration_date'[q] = expiration_date[q]
                         /\ DispatchedInStep(Job(t, q)) = 0
              /\ ExpiredQuests(now)' = {}]_vars

\* q1 has been expired by the job, once, and q2 was left Active with its date,
\* which is the last time of the clock; no job of q2 was dispatched.
DueQuestExpiredOtherKept ==
    /\ quest_status = [q \in Quests |-> IF q = "q1" THEN "Expired" ELSE "Active"]
    /\ expiration_date["q1"] # None
    /\ expiration_date["q2"] = Some(2)
    /\ \A t \in {ExpertTask, SpeedsterTask} :
          /\ CopiesIn(Job(t, "q1"), dispatches) = 1
          /\ CopiesIn(Job(t, "q2"), dispatches) = 0
    /\ queue = {Job(ExpertTask, "q1"), Job(SpeedsterTask, "q1")}

====
